---- MODULE Spec2Model ----
(***************************************************************************)
(* Model of the classification orchestration engine of the dataset         *)
(* catalog build (src/catalog-build/classification).                       *)
(*                                                                         *)
(*   SpecRules     phase 1: match_table, classify_tables, classify.main    *)
(*   SpecCall      one call of classify_table / classify_batch: the retry  *)
(*                 loop around the request to the inference service        *)
(*   SpecStudy     one study of an orchestrator run: the workers of        *)
(*                 classify_study / classify_study_concepts, each running  *)
(*                 the retry loop of its call under the semaphore, and the *)
(*                 collection after gather                                 *)
(*   SpecRun       one run of an orchestrator's main: the choice of the    *)
(*                 studies, run_studies over them one study at a time, the *)
(*                 artifact written per study and the summaries            *)
(*   SpecRunAgain  a concept-mode run followed by a second run on the      *)
(*                 output directory that the first one left                *)
(*   SpecRunFair   SpecRun with weak fairness of the program's steps and   *)
(*                 of the service's answers, for termination               *)
(*   SpecCoverage  compute_study_coverage on the tables and the            *)
(*                 classifications of one study                            *)
(*   SpecConcepts  classify_table_concepts on one table: the batches of    *)
(*                 its variables and the merge of the service's replies    *)
(*   SpecNorm      normalize_concepts: the synonym groups of the service,  *)
(*                 the mapping built from them and its application to the  *)
(*                 per-study concept files                                 *)
(*   SpecParse     parse_study on one study directory: the loop over its   *)
(*                 var_report files, of which some do not parse            *)
(*   SpecNormAgain SpecNorm followed by further runs of --normalize on the *)
(*                 concept files that the earlier run left                 *)
(*                                                                         *)
(* Strings that are searched by a regular expression are sequences of      *)
(* characters; identifiers that are only compared are TLA+ strings.  An    *)
(* optional value (Python's None) is the empty sequence, a present value v *)
(* is the one-element sequence <<v>>.                                      *)
(***************************************************************************)
EXTENDS Integers, Sequences, FiniteSets, TLC

\* ------------------------------------------------------------------ bounds

\* longest table list handed to classify_tables
MaxTables == 2
\* longest rule list of a study rule file
MaxStudyRules == 2
\* longest rule list of the default rule file
MaxDefaultRules == 1

\* number of tables of the study that the orchestrator processes
NTables == 3

\* number of tables of the larger study in the cache of an orchestrator run
MaxRunTables == 2

\* largest variable_count of a table or a classification in a coverage report
MaxVarCount == 2

\* longest list of assignments in one reply of the inference service
MaxReply == 2

\* most synonym groups in one answer of the inference service
MaxGroups == 1
\* longest synonym list of a group
MaxSynonyms == 2
\* most runs of --normalize that follow the first one on the same files
MaxRepeats == 1

\* most var_report files in a study directory
MaxFiles == 3

\* ------------------------------------------------------- program constants

\* llm_classify.MAX_RETRIES, llm_concept_classify.MAX_RETRIES
MAX_RETRIES == 5
\* llm_classify.CONCURRENCY, llm_concept_classify.CONCURRENCY: the size of
\* the semaphore.  The source sets 10; the model runs the same code with a
\* semaphore of 2, so that NTables tables are enough to exhaust it.
CONCURRENCY == 2

\* llm_concept_classify.VARS_PER_BATCH: the batch size of
\* classify_table_concepts.  The source sets 100; the model runs the same
\* code with batches of 2, so that tables of 0 .. VARS_PER_BATCH + 1
\* variables cover the empty, the full and the overflowing batch.
VARS_PER_BATCH == 2

\* llm_concept_classify.NORMALIZE_BATCH_SIZE: the batch size of
\* normalize_concepts.  The source sets 200; the model runs the same code
\* with batches of 2, so that three concepts make two batches.
NORMALIZE_BATCH_SIZE == 2

\* ------------------------------------------------------------ phase 1 data

None == <<>>
Some(v) == <<v>>

\* sorted list of the study accessions of the model
StudyOrder == <<"phs1", "phs2">>
StudyIds == {StudyOrder[i] : i \in DOMAIN StudyOrder}

\* table names and descriptions of the model
TableNames == {<<"a">>, <<"a", "b">>}
Descriptions == {<<>>, <<"b">>}

\* the regular expressions of the model: a literal, optionally anchored at
\* both ends: "a", "^a$", "b"
Patterns ==
    {[anchored |-> FALSE, lit |-> <<"a">>], [anchored |-> TRUE, lit |-> <<"a">>],
     [anchored |-> FALSE, lit |-> <<"b">>]}

\* models.ParsedTable; parse_var_report sets variable_count = len(variables)
VariablesOf(n) == IF n = <<"a">> THEN <<"v1", "v2">> ELSE <<>>
DatasetOf(n) == IF n = <<"a">> THEN "pht1" ELSE "pht2"

ParsedTable ==
    {[study_id |-> s, dataset_id |-> DatasetOf(n), table_name |-> n,
      description |-> ds, variables |-> VariablesOf(n),
      variable_count |-> Len(VariablesOf(n))] :
        s \in StudyIds, n \in TableNames, ds \in Descriptions}

\* models.Rule; concept and domain are filled in per position by RuleList
MatchFields == {"tableName", "description", "other"}
RuleShape ==
    {[match_field |-> "tableName", pattern |-> [anchored |-> FALSE, lit |-> <<"a">>]],
     [match_field |-> "tableName", pattern |-> [anchored |-> TRUE, lit |-> <<"a">>]],
     [match_field |-> "description", pattern |-> [anchored |-> FALSE, lit |-> <<"b">>]],
     [match_field |-> "other", pattern |-> [anchored |-> FALSE, lit |-> <<"a">>]]}

Rule(shape, tag, i) ==
    [match_field |-> shape.match_field, pattern |-> shape.pattern,
     concept |-> <<tag, i>>, domain |-> <<"domain", tag>>]

SeqsUpTo(S, n) == UNION {[1..k -> S] : k \in 0..n}

\* the rule lists a rule file can hold: each rule carries its own concept
RuleLists(tag, n) ==
    {[i \in DOMAIN shapes |-> Rule(shapes[i], tag, i)] : shapes \in SeqsUpTo(RuleShape, n)}

\* re.search(pattern, value): the pattern matches somewhere in the value
re_search(pattern, value) ==
    \E i \in 1..(Len(value) + 1) :
        LET j == i + Len(pattern.lit) - 1 IN
        /\ j <= Len(value)
        /\ SubSeq(value, i, j) = pattern.lit
        /\ pattern.anchored => (i = 1 /\ j = Len(value))

\* a turn of the loop that searches the table name for a rule of any other
\* match_field
RuleHits_any_field(table, rule) ==
    CASE rule.match_field = "description" -> re_search(rule.pattern, table.description)
      [] OTHER -> re_search(rule.pattern, table.table_name)

\* one turn of the loop of match_table: does the rule stop the scan at this table
RuleHits(table, rule) ==
    CASE rule.match_field = "tableName" -> re_search(rule.pattern, table.table_name)
      [] rule.match_field = "description" -> re_search(rule.pattern, table.description)
      [] OTHER -> FALSE

\* match_table with the scan continuing past a hit (the last matching rule wins)
RECURSIVE match_table_last(_, _)
match_table_last(table, rules) ==
    IF rules = <<>> THEN None
    ELSE LET rest == match_table_last(table, Tail(rules)) IN
         IF rest # None THEN rest
         ELSE IF RuleHits(table, Head(rules)) THEN Some(Head(rules)) ELSE None

\* classify.match_table: the for loop over the rules, as a recursion on the list
RECURSIVE match_table(_, _)
match_table(table, rules) ==
    IF rules = <<>> THEN None
    ELSE IF RuleHits(table, Head(rules)) THEN Some(Head(rules))
    ELSE match_table(table, Tail(rules))

\* classify.load_rules: a missing rule file gives the empty list
load_rules(files, study_id) == <<files[study_id], files["_default"]>>

\* a Classification that counts the table instead of its variables
Classification_one_per_table(study_id, table, rule, source_prefix) ==
    [study_id |-> study_id, dataset_id |-> table.dataset_id,
     table_name |-> table.table_name, concept |-> rule.concept,
     domain |-> rule.domain, phase |-> 1,
     rule_source |-> <<source_prefix, rule.match_field, rule.pattern>>,
     variable_count |-> 1, variables |-> table.variables]

\* the Classification that classify_tables builds for a matched table
Classification(study_id, table, rule, source_prefix) ==
    [study_id |-> study_id, dataset_id |-> table.dataset_id,
     table_name |-> table.table_name, concept |-> rule.concept,
     domain |-> rule.domain, phase |-> 1,
     rule_source |-> <<source_prefix, rule.match_field, rule.pattern>>,
     variable_count |-> table.variable_count, variables |-> table.variables]

\* ClassifyOne with the default rules tried before the study rules
ClassifyOne_default_first(files, study_id, table) ==
    LET rs == load_rules(files, study_id)
        m1 == match_table(table, rs[2])
        rule == IF m1 = None THEN match_table(table, rs[1]) ELSE m1
        source_prefix == IF m1 = None THEN study_id ELSE "_default"
    IN  IF rule # None
        THEN <<Classification(study_id, table, rule[1], source_prefix)>>
        ELSE <<>>

\* ClassifyOne appending one Classification per source that matches
ClassifyOne_every_source(files, study_id, table) ==
    LET rs == load_rules(files, study_id)
        m1 == match_table(table, rs[1])
        m2 == match_table(table, rs[2])
    IN  (IF m1 # None THEN <<Classification(study_id, table, m1[1], study_id)>> ELSE <<>>)
        \o (IF m2 # None THEN <<Classification(study_id, table, m2[1], "_default")>> ELSE <<>>)

\* the body of the inner loop of classify_tables for one table: the
\* Classifications it appends (none or one)
ClassifyOne(files, study_id, table) ==
    LET rs == load_rules(files, study_id)
        m1 == match_table(table, rs[1])
        rule == IF m1 = None THEN match_table(table, rs[2]) ELSE m1
        source_prefix == IF m1 = None THEN "_default" ELSE study_id
    IN  IF rule # None
        THEN <<Classification(study_id, table, rule[1], source_prefix)>>
        ELSE <<>>

RECURSIVE ClassifyStudyTables(_, _, _)
ClassifyStudyTables(files, study_id, study_tables) ==
    IF study_tables = <<>> THEN <<>>
    ELSE ClassifyOne(files, study_id, Head(study_tables))
            \o ClassifyStudyTables(files, study_id, Tail(study_tables))

\* by_study[s] of classify_tables: the tables of study s in input order
by_study(tbls, s) == SelectSeq(tbls, LAMBDA t : t.study_id = s)

\* study_ids of classify_tables: the sorted keys of by_study, filtered
study_ids(tbls, study_filter) ==
    SelectSeq(StudyOrder,
              LAMBDA s : /\ by_study(tbls, s) # <<>>
                         /\ (study_filter # None => s = study_filter[1]))

RECURSIVE ClassifyStudies(_, _, _)
ClassifyStudies(files, tbls, ids) ==
    IF ids = <<>> THEN <<>>
    ELSE ClassifyStudyTables(files, Head(ids), by_study(tbls, Head(ids)))
            \o ClassifyStudies(files, tbls, Tail(ids))

\* ----------------------------------------------------------- phase 1 state

VARIABLES
    tables,                 \* the parsed tables (the cache), a sequence
    rule_files,             \* rules/<study>.json and rules/_default.json
    classifications_file,   \* output/classifications.json, None until written
    call,                   \* the last call (match_table or main): arguments and result
    held_before             \* history: the studies of which the file held an entry
                            \* before the last run that wrote it

rulesVars == <<tables, rule_files, classifications_file, call, held_before>>

\* a classify_tables that leaves out the studies that the classifications
\* file of an earlier run already holds
classify_tables_resuming(files, tbls, study_filter) ==
    LET done == IF classifications_file = None THEN {}
                ELSE {classifications_file[1][k].study_id :
                        k \in DOMAIN classifications_file[1]}
    IN  ClassifyStudies(files, tbls,
            SelectSeq(study_ids(tbls, study_filter), LAMBDA s : s \notin done))

\* classify.classify_tables
classify_tables(files, tbls, study_filter) ==
    ClassifyStudies(files, tbls, study_ids(tbls, study_filter))

\* ------------------------------------------------------ orchestrator state

VARIABLES
    mode,           \* "verdict" (llm_classify) or "concept" (llm_concept_classify)
    credential,     \* the environment holds what the agent needs to reach the
                    \* service (ANTHROPIC_API_KEY, the endpoint)
    sorted_tables,  \* the table names of the study, sorted
    nvars,          \* per table of the study, in sorted order: its variable count
    worker,         \* per table: the state of its _classify_one task
    semaphore,      \* the free slots of asyncio.Semaphore(CONCURRENCY)
    study,          \* the collection after gather: None, or the study's outcome
    out_of_order    \* history: a task has ended before a task of an earlier table

studyVars == <<mode, credential, sorted_tables, nvars, worker, semaphore, study, out_of_order>>

\* ------------------------------- classify_table / classify_batch call state

VARIABLES
    cpc,            \* "start", "in_flight", "backoff", "returned" or "raised"
    attempt,        \* the loop variable of the retry loop
    requests,       \* the number of requests (agent.run) the call has issued
    sleeps,         \* the waits of the call's backoff sleeps, in order
    responses,      \* the answers the call has received, in order
    returned,       \* the values the call has returned, in order
    raised          \* the error the call has raised, None if none

callVars == <<cpc, attempt, requests, sleeps, responses, returned, raised>>

\* ------------------------------------------- classify_table_concepts state

VARIABLES
    all_vars,       \* table.variables: a sequence of {name, description}
    offset,         \* the loop variable i of the batch loop
    all_concepts,   \* the assignments of the batches so far
    tpc,            \* "start", "await" (a classify_batch call is awaited),
                    \* "returned" or "raised"
    assigned,       \* the list that classify_table_concepts returned
    total_in,       \* the input tokens of the batches so far
    total_out,      \* the output tokens of the batches so far
    issued,         \* history: the batches handed to classify_batch, in order
    used_in,        \* history: the input tokens the service reported, in all
    used_out        \* history: the output tokens the service reported, in all

conceptVars == <<all_vars, offset, all_concepts, tpc, assigned, total_in, total_out,
                 issued, used_in, used_out>>

\* ------------------------------------------------ normalize_concepts state

VARIABLES
    concept_files,      \* output/llm-concepts/<study>.json: per study its tables
    normalization_map,  \* output/concept-normalization-map.json as the run has
                        \* written it, None until then
    npc,                \* "start", "await", "backoff", "done" or "raised"
    nbatch,             \* the loop variable i of the batch loop
    nattempt,           \* the attempt of the retry loop of the batch
    all_groups,         \* the groups of the batches so far
    rewritten,          \* the concept files that the run has written
    passes              \* history: the runs of --normalize before this one

normVars == <<concept_files, normalization_map, npc, nbatch, nattempt,
              all_groups, rewritten, passes>>

\* --------------------------------------------- orchestrator run state (main)

VARIABLES
    args,           \* the options of the run: --all and --study
    rules_dir,      \* the studies that have a rule file rules/phs*.json
    output_dir,     \* output/llm-rules or output/llm-concepts: per study its artifact
    rpc,            \* "main", "loop", "study" (awaiting classify_study) or "done"
    run_ids,        \* study_ids of run_studies: the study list it is handed
    ri,             \* the position of run_studies in the study list
    results,        \* the results list of run_studies
    totals,         \* total_rules, or total_tables and total_vars
    study_summary,  \* per processed study: what its progress lines report
    run_summary,    \* None, or what the last line of run_studies reports
    earlier,        \* history: the studies that had an artifact when the run began
    requested,      \* history: the studies for which a request has been issued
    joined,         \* history: per written study, its tasks when the artifact was written
    before          \* history: None, or `joined` as the run before this one left it

runVars == <<args, rules_dir, output_dir, rpc, run_ids, ri, results, totals,
             study_summary, run_summary, earlier, requested, joined, before>>

\* ---------------------------------------------------- coverage report state

VARIABLES
    cov_tables,           \* the tables argument of compute_study_coverage
    cov_classifications,  \* its classifications argument
    cov_stats             \* None, or the outcome of the call

covVars == <<cov_tables, cov_classifications, cov_stats>>

\* ----------------------------------------------------- parse_study state

VARIABLES
    study_dir,      \* the *.var_report.xml files of the study directory: per file
                    \* name what the file holds
    xml_files,      \* sorted(study_dir.glob("*.var_report.xml"))
    xi,             \* the position of the loop in xml_files
    study_tables,   \* the list `tables` of parse_study
    warnings,       \* the files for which a WARNING line was printed, in order
    ppc             \* "start", "loop", "returned" or "raised"

parseVars == <<study_dir, xml_files, xi, study_tables, warnings, ppc>>

vars == <<rulesVars, studyVars, callVars, conceptVars, normVars, runVars, covVars,
          parseVars>>

\* parse_study at rest, for the specifications that do not run it
ParseIdle ==
    /\ study_dir = <<>>
    /\ xml_files = <<>>
    /\ xi = 0
    /\ study_tables = <<>>
    /\ warnings = <<>>
    /\ ppc = "start"

\* no coverage report under observation
CoverageIdle ==
    /\ cov_tables = <<>>
    /\ cov_classifications = <<>>
    /\ cov_stats = None

\* no orchestrator run under observation
RunIdle ==
    /\ args = [all |-> FALSE, study |-> None]
    /\ rules_dir = {}
    /\ output_dir = <<>>
    /\ rpc = "main"
    /\ run_ids = <<>>
    /\ ri = 0
    /\ results = <<>>
    /\ totals = <<>>
    /\ study_summary = <<>>
    /\ run_summary = None
    /\ earlier = {}
    /\ requested = {}
    /\ joined = <<>>
    /\ before = None

\* no call of classify_table / classify_batch under observation
CallIdle ==
    /\ cpc = "start"
    /\ attempt = 0
    /\ requests = 0
    /\ sleeps = <<>>
    /\ responses = <<>>
    /\ returned = <<>>
    /\ raised = None

\* the orchestrator at rest, for the specifications that do not run it
StudyIdle ==
    /\ mode = "verdict"
    /\ credential = TRUE
    /\ sorted_tables = <<>>
    /\ nvars = <<>>
    /\ worker = <<>>
    /\ semaphore = CONCURRENCY
    /\ study = None
    /\ out_of_order = FALSE

\* classify_table_concepts at rest, for the specifications that do not run it
ConceptsIdle ==
    /\ all_vars = <<>>
    /\ offset = 0
    /\ all_concepts = <<>>
    /\ tpc = "start"
    /\ assigned = <<>>
    /\ total_in = 0
    /\ total_out = 0
    /\ issued = <<>>
    /\ used_in = 0
    /\ used_out = 0

\* normalize_concepts at rest, for the specifications that do not run it
NormIdle ==
    /\ concept_files = <<>>
    /\ normalization_map = None
    /\ npc = "start"
    /\ nbatch = 0
    /\ nattempt = 0
    /\ all_groups = <<>>
    /\ rewritten = {}
    /\ passes = 0

\* the studies of which the classifications file f holds an entry
StudiesIn(f) == IF f = None THEN {} ELSE {f[1][k].study_id : k \in DOMAIN f[1]}

\* a save that appends to the entries that the file already holds
save_classifications_appending(file, classifications, dry_run) ==
    IF dry_run THEN file
    ELSE IF file = None THEN Some(classifications)
    ELSE Some(file[1] \o classifications)

\* main: `if not args.dry_run: save_classifications(...)`, which opens the
\* file with mode "w" and dumps the list: the content is replaced as a whole
save_classifications(file, classifications, dry_run) ==
    IF dry_run THEN file ELSE Some(classifications)

\* phase 1 at rest, for the specifications that do not run it
RulesIdle ==
    /\ tables = <<>>
    /\ rule_files = [f \in StudyIds \cup {"_default"} |-> <<>>]
    /\ classifications_file = None
    /\ call = None
    /\ held_before = {}

InitRules ==
    /\ ParseIdle
    /\ CoverageIdle
    /\ RunIdle
    /\ StudyIdle
    /\ CallIdle
    /\ ConceptsIdle
    /\ NormIdle
    /\ tables \in SeqsUpTo(ParsedTable, MaxTables)
    /\ \E sr \in RuleLists("study", MaxStudyRules),
          dr \in RuleLists("default", MaxDefaultRules) :
          rule_files = [f \in StudyIds \cup {"_default"} |->
                          IF f = "phs1" THEN sr
                          ELSE IF f = "_default" THEN dr ELSE <<>>]
    /\ classifications_file = None
    /\ call = None
    /\ held_before = {}

\* a call match_table(table, rules) on a table of the cache and a loaded rule list
MatchTable(i, f) ==
    /\ i \in DOMAIN tables
    /\ call' = Some([op |-> "match_table", table |-> tables[i], rules |-> rule_files[f],
                     result |-> match_table(tables[i], rule_files[f])])
    /\ UNCHANGED <<tables, rule_files, classifications_file, held_before>>

\* classify.main: classify_tables, then save_classifications unless --dry-run
Main(study_filter, dry_run) ==
    LET result == classify_tables(rule_files, tables, study_filter) IN
    /\ call' = Some([op |-> "main", study_filter |-> study_filter, dry_run |-> dry_run,
                     result |-> result])
    /\ classifications_file' = save_classifications(classifications_file, result, dry_run)
    /\ held_before' = IF dry_run THEN held_before ELSE StudiesIn(classifications_file)
    /\ UNCHANGED <<tables, rule_files>>

\* phase 1 does not touch the orchestrator
RulesFrame ==
    UNCHANGED <<studyVars, callVars, conceptVars, normVars, runVars, covVars, parseVars>>

NextRules ==
    \/ \E i \in 1..MaxTables, f \in StudyIds \cup {"_default"} :
          MatchTable(i, f) /\ RulesFrame
    \/ \E study_filter \in {None} \cup {Some(s) : s \in StudyIds},
          dry_run \in BOOLEAN :
          Main(study_filter, dry_run) /\ RulesFrame

SpecRules == InitRules /\ [][NextRules]_vars

\* ----------------------------------------------------------- the retry loop

\* the errors of a request (agent.run): ModelHTTPError with status 429,
\* ModelHTTPError with another status, and an error that is no
\* ModelHTTPError (UnexpectedModelBehavior)
RATE_LIMIT == "http_429"
Errors == {RATE_LIMIT, "http_500", "unexpected"}

\* result.output: a TableVerdict that proposes a rule or one that does not
\* (verdict mode), the concepts of the variables (concept mode)
Outputs(m) == IF m = "verdict" THEN {"classify", "skip"} ELSE {"concepts"}

\* usage.input_tokens, usage.output_tokens
TokenCounts == {1, 2}

\* the answers of the inference service to one request
Responses(m) ==
    {[ok |-> TRUE, output |-> o, input_tokens |-> i, output_tokens |-> u] :
        o \in Outputs(m), i \in TokenCounts, u \in TokenCounts}
        \cup {[ok |-> FALSE, error |-> e] : e \in Errors}

\* return result.output, usage.input_tokens, usage.output_tokens
ReturnValue(r) ==
    [output |-> r.output, input_tokens |-> r.input_tokens,
     output_tokens |-> r.output_tokens]

\* an except clause that gives up one attempt early
Retried_one_less(error, n) == error = RATE_LIMIT /\ n < MAX_RETRIES - 1

\* an except clause that also retries after the last attempt
Retried_one_more(error, n) == error = RATE_LIMIT /\ n <= MAX_RETRIES

\* an except clause that retries every error
Retried_any_error(error, n) == n < MAX_RETRIES

\* the except clause of the retry loop: is the error retried at attempt n
Retried(error, n) == error = RATE_LIMIT /\ n < MAX_RETRIES

\* a backoff that grows by two seconds per attempt
Wait_linear(n) == 2 * n

\* wait = 2**attempt
Wait(n) == 2 ^ n

\* ---------------------------------- one call of classify_table / classify_batch

InitCall ==
    /\ ParseIdle
    /\ CoverageIdle
    /\ RunIdle
    /\ RulesIdle
    /\ ConceptsIdle
    /\ NormIdle
    /\ mode \in {"verdict", "concept"}
    /\ credential = TRUE
    /\ sorted_tables = <<>>
    /\ nvars = <<>>
    /\ worker = <<>>
    /\ semaphore = CONCURRENCY
    /\ study = None
    /\ out_of_order = FALSE
    /\ CallIdle

\* the call enters the loop and issues the request of attempt 1
CallStart ==
    /\ cpc = "start"
    /\ cpc' = "in_flight"
    /\ attempt' = 1
    /\ requests' = 1
    /\ UNCHANGED <<sleeps, responses, returned, raised>>

\* the request is answered: the call returns the result, or sleeps
\* 2**attempt before the next attempt, or raises the error
CallRespond(r) ==
    /\ cpc = "in_flight"
    /\ r \in Responses(mode)
    /\ responses' = Append(responses, r)
    /\ IF r.ok
       THEN /\ cpc' = "returned"
            /\ returned' = Append(returned, ReturnValue(r))
            /\ UNCHANGED <<sleeps, raised>>
       ELSE IF Retried(r.error, attempt)
       THEN /\ cpc' = "backoff"
            /\ sleeps' = Append(sleeps, Wait(attempt))
            /\ UNCHANGED <<returned, raised>>
       ELSE /\ cpc' = "raised"
            /\ raised' = Some(r.error)
            /\ UNCHANGED <<sleeps, returned>>
    /\ UNCHANGED <<attempt, requests>>

\* asyncio.sleep(wait) is over: the loop goes to the next attempt and issues
\* the next request
CallWake ==
    /\ cpc = "backoff"
    /\ cpc' = "in_flight"
    /\ attempt' = attempt + 1
    /\ requests' = requests + 1
    /\ UNCHANGED <<sleeps, responses, returned, raised>>

CallFrame ==
    UNCHANGED <<rulesVars, studyVars, conceptVars, normVars, runVars, covVars, parseVars>>

NextCall ==
    \/ CallStart /\ CallFrame
    \/ \E r \in Responses("verdict") \cup Responses("concept") :
          CallRespond(r) /\ CallFrame
    \/ CallWake /\ CallFrame

SpecCall == InitCall /\ [][NextCall]_vars

\* ------------------------------------------------------------ orchestrator

\* the positions of sorted_tables, one _classify_one task for each
Workers == 1..NTables

\* the tables lists that classify_study / classify_study_concepts can be
\* handed: the table names 1 .. NTables of the study in any order
TableLists ==
    {tbls \in [Workers -> Workers] :
        \A i, j \in Workers : i # j => tbls[i] # tbls[j]}

\* a study that is processed in the order in which its tables are handed over
sorted_by_table_name_unsorted(tbls) == tbls

\* sorted(tables, key=lambda t: t.table_name)
sorted_by_table_name(tbls) == SortSeq(tbls, LAMBDA a, b : a < b)

\* range(0, len(all_vars), VARS_PER_BATCH) for a table of at most
\* VARS_PER_BATCH variables: the number of classify_batch calls of the table;
\* classify_study calls classify_table once for every table
Calls(m, v) == IF m = "verdict" THEN 1 ELSE IF v = 0 THEN 0 ELSE 1

\* a _classify_one task that has not been given a slot; attempt is the loop
\* variable of the task's call, 0 while no call is running
PendingWorker == [pc |-> "pending", attempt |-> 0, result |-> None, raised |-> None]

\* what classify_table_concepts returns for a table without variables
NoVariables == [output |-> "no_variables", input_tokens |-> 0, output_tokens |-> 0]

InitStudy ==
    /\ ParseIdle
    /\ CoverageIdle
    /\ RunIdle
    /\ RulesIdle
    /\ CallIdle
    /\ ConceptsIdle
    /\ NormIdle
    /\ mode \in {"verdict", "concept"}
    /\ credential = TRUE
    /\ \E tbls \in TableLists : sorted_tables = sorted_by_table_name(tbls)
    /\ nvars \in [Workers -> {0, 1}]
    /\ mode = "verdict" => nvars = [t \in Workers |-> 1]
    /\ worker = [t \in Workers |-> PendingWorker]
    /\ semaphore = CONCURRENCY
    /\ study = None
    /\ out_of_order = FALSE

\* a gather that takes a sleeping task for one that has ended
Terminal_or_backoff(w) == w.pc \in {"returned", "raised", "backoff"}

\* a task that has returned or raised
Terminal(w) == w.pc \in {"returned", "raised"}

\* the task of position t ends while the task of an earlier position has not
EndsEarly(ws, t) == \E u \in DOMAIN ws : u < t /\ ~Terminal(ws[u])

\* a semaphore that lets one task more in than it has slots
CanAcquire_one_more(s) == s >= 0

\* `async with semaphore`: a slot is free
CanAcquire(s) == s > 0

\* _classify_one: the task gets a slot and calls classify_table /
\* classify_table_concepts, which issues the first request (attempt 1) with
\* get_agent().run(prompt); a table without variables returns in concept
\* mode without any request.  Nothing before this call looks at the
\* credential: without it the agent either raises here, before a request,
\* an error that is no ModelHTTPError, or issues a request that fails
Acquire(t) ==
    /\ study = None
    /\ worker[t].pc = "pending"
    /\ CanAcquire(semaphore)
    /\ IF Calls(mode, nvars[t]) = 0
       THEN /\ worker' = [worker EXCEPT ![t].pc = "returned",
                                        ![t].result = Some(NoVariables)]
            /\ out_of_order' = (out_of_order \/ EndsEarly(worker, t))
            /\ UNCHANGED semaphore
       ELSE \/ /\ worker' = [worker EXCEPT ![t].pc = "in_flight", ![t].attempt = 1]
               /\ semaphore' = semaphore - 1
               /\ UNCHANGED out_of_order
            \/ /\ ~credential
               /\ worker' = [worker EXCEPT ![t].pc = "raised",
                                           ![t].raised = Some("unexpected")]
               /\ out_of_order' = (out_of_order \/ EndsEarly(worker, t))
               /\ UNCHANGED semaphore
    /\ UNCHANGED <<mode, credential, sorted_tables, nvars, study>>

\* a task that gives its slot back for the time of its sleep
Respond_release_on_sleep(t, r) ==
    /\ worker[t].pc = "in_flight"
    /\ r \in Responses(mode)
    /\ credential \/ ~r.ok
    /\ IF r.ok
       THEN /\ worker' = [worker EXCEPT ![t].pc = "returned", ![t].attempt = 0,
                                        ![t].result = Some(ReturnValue(r))]
            /\ semaphore' = semaphore + 1
            /\ out_of_order' = (out_of_order \/ EndsEarly(worker, t))
       ELSE IF Retried(r.error, worker[t].attempt)
       THEN /\ worker' = [worker EXCEPT ![t].pc = "backoff"]
            /\ semaphore' = semaphore + 1
            /\ UNCHANGED out_of_order
       ELSE /\ worker' = [worker EXCEPT ![t].pc = "raised", ![t].attempt = 0,
                                        ![t].raised = Some(r.error)]
            /\ semaphore' = semaphore + 1
            /\ out_of_order' = (out_of_order \/ EndsEarly(worker, t))
    /\ UNCHANGED <<mode, credential, sorted_tables, nvars, study>>

\* the request of table t is answered: the call returns the result, or
\* sleeps before the next attempt, or raises the error; leaving
\* `async with semaphore` frees the slot.  A request without the credential
\* is not answered with a result
Respond(t, r) ==
    /\ worker[t].pc = "in_flight"
    /\ r \in Responses(mode)
    /\ credential \/ ~r.ok
    /\ IF r.ok
       THEN /\ worker' = [worker EXCEPT ![t].pc = "returned", ![t].attempt = 0,
                                        ![t].result = Some(ReturnValue(r))]
            /\ semaphore' = semaphore + 1
            /\ out_of_order' = (out_of_order \/ EndsEarly(worker, t))
       ELSE IF Retried(r.error, worker[t].attempt)
       THEN /\ worker' = [worker EXCEPT ![t].pc = "backoff"]
            /\ UNCHANGED <<semaphore, out_of_order>>
       ELSE /\ worker' = [worker EXCEPT ![t].pc = "raised", ![t].attempt = 0,
                                        ![t].raised = Some(r.error)]
            /\ semaphore' = semaphore + 1
            /\ out_of_order' = (out_of_order \/ EndsEarly(worker, t))
    /\ UNCHANGED <<mode, credential, sorted_tables, nvars, study>>

\* a loop that also starts over after the call has raised
Wake_after_raise(t) ==
    /\ worker[t].pc \in {"backoff", "raised"}
    /\ worker' = [worker EXCEPT ![t].pc = "in_flight", ![t].attempt = @ + 1]
    /\ UNCHANGED <<mode, credential, sorted_tables, nvars, semaphore, study, out_of_order>>

\* asyncio.sleep(wait) is over: the loop goes to the next attempt and issues
\* the next request
Wake(t) ==
    /\ worker[t].pc = "backoff"
    /\ worker' = [worker EXCEPT ![t].pc = "in_flight", ![t].attempt = @ + 1]
    /\ UNCHANGED <<mode, credential, sorted_tables, nvars, semaphore, study, out_of_order>>

\* a gather that ends with the first exception of a task
GatherDone_first_exception(ws) ==
    \/ \A t \in DOMAIN ws : Terminal(ws[t])
    \/ \E t \in DOMAIN ws : ws[t].pc = "raised"

\* asyncio.gather(*tasks, return_exceptions=True) is over: every task has
\* returned or raised
GatherDone(ws) == \A t \in DOMAIN ws : Terminal(ws[t])

\* the loop over the results of gather, from position t on, in the order of
\* sorted_tables: an exception counts as an error, a result adds its tokens
\* and its entry
RECURSIVE Collected(_, _, _)
Collected(tbls, ws, t) ==
    IF t > Len(ws)
    THEN [entries |-> <<>>, total_in |-> 0, total_out |-> 0, errors |-> 0]
    ELSE LET rest == Collected(tbls, ws, t + 1) IN
         IF ws[t].pc = "returned"
         THEN [entries |-> <<[table |-> tbls[t],
                              output |-> ws[t].result[1].output]>>
                               \o rest.entries,
               total_in |-> ws[t].result[1].input_tokens + rest.total_in,
               total_out |-> ws[t].result[1].output_tokens + rest.total_out,
               errors |-> rest.errors]
         ELSE [rest EXCEPT !.errors = @ + 1]

\* gather(..., return_exceptions=True) has every task's result or exception;
\* classify_study / classify_study_concepts build the study result from them
Collect ==
    /\ study = None
    /\ GatherDone(worker)
    /\ study' = Some(Collected(sorted_tables, worker, 1))
    /\ UNCHANGED <<mode, credential, sorted_tables, nvars, worker, semaphore, out_of_order>>

\* the orchestrator does not touch the other components
StudyFrame ==
    UNCHANGED <<rulesVars, callVars, conceptVars, normVars, runVars, covVars, parseVars>>

NextStudy ==
    \/ \E t \in Workers : Acquire(t) /\ StudyFrame
    \/ \E t \in Workers, r \in Responses("verdict") \cup Responses("concept") :
          Respond(t, r) /\ StudyFrame
    \/ \E t \in Workers : Wake(t) /\ StudyFrame
    \/ Collect /\ StudyFrame

SpecStudy == InitStudy /\ [][NextStudy]_vars

\* -------------------------------------------------- classify_table_concepts

\* the variable names of the model in sorted order (parse_var_report sorts
\* them and keeps each name once), and a name that no table has
VarNames == <<"v1", "v2", "v3">>
ForeignName == "x"
ConceptLabels == {"A", "B"}

\* the variables of a table with n variables
TableVars(n) == [k \in 1..n |-> [name |-> VarNames[k], description |-> <<"about", VarNames[k]>>]]

\* LLMVariableConcept: the assignments a reply of the service can hold
LLMVariableConcept ==
    {[variable_name |-> v, concept |-> c] :
        v \in {VarNames[k] : k \in DOMAIN VarNames} \cup {ForeignName},
        c \in ConceptLabels}

InitConcepts ==
    /\ ParseIdle
    /\ CoverageIdle
    /\ RunIdle
    /\ RulesIdle
    /\ StudyIdle
    /\ CallIdle
    /\ NormIdle
    /\ all_vars \in {TableVars(n) : n \in 0..(VARS_PER_BATCH + 1)}
    /\ offset = 0
    /\ all_concepts = <<>>
    /\ tpc = "start"
    /\ assigned = <<>>
    /\ total_in = 0
    /\ total_out = 0
    /\ issued = <<>>
    /\ used_in = 0
    /\ used_out = 0

\* desc_by_name.get(name, "")
desc_by_name(vs, name) ==
    IF \E k \in DOMAIN vs : vs[k].name = name
    THEN vs[CHOOSE k \in DOMAIN vs : vs[k].name = name].description
    ELSE <<>>

\* a merge in which a later assignment of a name replaces the earlier one
RECURSIVE BuildResult_keep_last(_, _, _)
BuildResult_keep_last(vs, concepts, seen) ==
    IF concepts = <<>> THEN <<>>
    ELSE LET vc == Head(concepts)
             rest == Tail(concepts)
         IN  IF \E k \in DOMAIN rest : rest[k].variable_name = vc.variable_name
             THEN BuildResult_keep_last(vs, rest, seen)
             ELSE <<[name |-> vc.variable_name,
                     description |-> desc_by_name(vs, vc.variable_name),
                     concept |-> vc.concept]>>
                  \o BuildResult_keep_last(vs, rest, seen)

\* the loop that builds the result of classify_table_concepts: an
\* assignment is kept unless its variable name was seen before
RECURSIVE BuildResult(_, _, _)
BuildResult(vs, concepts, seen) ==
    IF concepts = <<>> THEN <<>>
    ELSE LET vc == Head(concepts) IN
         IF vc.variable_name \notin seen
         THEN <<[name |-> vc.variable_name,
                 description |-> desc_by_name(vs, vc.variable_name),
                 concept |-> vc.concept]>>
              \o BuildResult(vs, Tail(concepts), seen \cup {vc.variable_name})
         ELSE BuildResult(vs, Tail(concepts), seen)

\* a slice that reaches one variable into the next batch
Batch_overlapping(vs, i) ==
    SubSeq(vs, i + 1, IF i + VARS_PER_BATCH + 1 < Len(vs) THEN i + VARS_PER_BATCH + 1
                      ELSE Len(vs))

\* all_vars[i : i + VARS_PER_BATCH]
Batch(vs, i) ==
    SubSeq(vs, i + 1, IF i + VARS_PER_BATCH < Len(vs) THEN i + VARS_PER_BATCH ELSE Len(vs))

\* classify_table_concepts is called: with no variable the batch loop is
\* empty and the function returns the empty list; otherwise the first
\* classify_batch call is awaited
StartTable ==
    /\ tpc = "start"
    /\ IF Len(all_vars) = 0
       THEN /\ tpc' = "returned"
            /\ assigned' = BuildResult(all_vars, <<>>, {})
            /\ UNCHANGED issued
       ELSE /\ tpc' = "await"
            /\ issued' = <<Batch(all_vars, 0)>>
            /\ UNCHANGED assigned
    /\ UNCHANGED <<all_vars, offset, all_concepts, total_in, total_out, used_in, used_out>>

\* the awaited classify_batch call returns the service's assignments and
\* the usage of its request: the assignments are appended, the tokens are
\* added, and the loop awaits the call of the next batch or, after the last
\* batch, the result is built and returned with the token sums
BatchReturns(reply, tok_in, tok_out) ==
    /\ tpc = "await"
    /\ all_concepts' = all_concepts \o reply
    /\ total_in' = total_in + tok_in
    /\ total_out' = total_out + tok_out
    /\ used_in' = used_in + tok_in
    /\ used_out' = used_out + tok_out
    /\ offset' = offset + VARS_PER_BATCH
    /\ IF offset' < Len(all_vars)
       THEN /\ issued' = Append(issued, Batch(all_vars, offset'))
            /\ UNCHANGED <<tpc, assigned>>
       ELSE /\ tpc' = "returned"
            /\ assigned' = BuildResult(all_vars, all_concepts', {})
            /\ UNCHANGED issued
    /\ UNCHANGED all_vars

\* a table that hands over what its earlier batches gave when a batch raises
BatchRaises_keeps_partial ==
    /\ tpc = "await"
    /\ tpc' = "raised"
    /\ assigned' = BuildResult(all_vars, all_concepts, {})
    /\ UNCHANGED <<all_vars, offset, all_concepts, total_in, total_out,
                   issued, used_in, used_out>>

\* the awaited classify_batch call raises (a non-retryable error or the
\* last rate-limit error): classify_table_concepts raises it
BatchRaises ==
    /\ tpc = "await"
    /\ tpc' = "raised"
    /\ UNCHANGED <<all_vars, offset, all_concepts, assigned, total_in, total_out,
                   issued, used_in, used_out>>

ConceptsFrame ==
    UNCHANGED <<rulesVars, studyVars, callVars, normVars, runVars, covVars, parseVars>>

NextConcepts ==
    \/ StartTable /\ ConceptsFrame
    \/ \E reply \in SeqsUpTo(LLMVariableConcept, MaxReply), tok_in, tok_out \in TokenCounts :
          BatchReturns(reply, tok_in, tok_out) /\ ConceptsFrame
    \/ BatchRaises /\ ConceptsFrame

SpecConcepts == InitConcepts /\ [][NextConcepts]_vars

\* the tokens that the collection loop of classify_study_concepts adds to
\* the study's total for a table: the tok_in / tok_out that the table's call
\* returned, nothing for a call that raised
Counted(pc, tok) == IF pc = "returned" THEN tok ELSE 0

\* _classify_one of classify_study_concepts: what gather holds for the table
\* once its call is over, the tuple (table, variables, tok_in, tok_out) that
\* classify_table_concepts returned or the exception that it raised
ConceptTask ==
    [pc |-> tpc,
     attempt |-> 0,
     result |-> IF tpc = "returned"
                THEN Some([output |-> "concepts", variables |-> assigned,
                           input_tokens |-> total_in, output_tokens |-> total_out])
                ELSE None,
     raised |-> IF tpc = "raised" THEN Some("error") ELSE None]

\* ------------------------------------- classify_table_concepts properties

NamesOf(vs) == {vs[k].name : k \in DOMAIN vs}

\* C9: for a table of V distinct variable names, classify_table_concepts
\* returns exactly V assignments, one for every input variable name, none
\* omitted and none duplicated, whatever the service replies to each batch.
C9_BatchCompleteness ==
    tpc = "returned" =>
        /\ Len(assigned) = Len(all_vars)
        /\ {assigned[k].name : k \in DOMAIN assigned} = NamesOf(all_vars)
        /\ \A j, k \in DOMAIN assigned :
              assigned[j].name = assigned[k].name => j = k

\* C25: the input and output tokens that classify_study_concepts adds to
\* the totals of the study for a table are the sums of the usage that the
\* service reported for the calls made for that table.
C25_TotalsAreSums ==
    tpc \in {"returned", "raised"} =>
        /\ Counted(tpc, total_in) = used_in
        /\ Counted(tpc, total_out) = used_out

\* C35: a table of which a batch ends in error gives the study result no
\* entry, so no variable assignment, not even of its batches that returned
\* before; it adds nothing to the study's token totals and counts as exactly
\* one error.
C35_TableAllOrNothing ==
    tpc = "raised" =>
        LET c == Collected(<<1>>, <<ConceptTask>>, 1)
        IN  /\ assigned = <<>>
            /\ c.entries = <<>>
            /\ c.total_in = 0
            /\ c.total_out = 0
            /\ c.errors = 1

\* C35 witness: a batch of the table returned assignments and tokens, and a
\* later batch raised.
C35_Witness ==
    /\ tpc = "raised"
    /\ all_concepts # <<>>
    /\ used_in > 0
    /\ used_out > 0

\* the batches of a list one after the other
RECURSIVE Flatten(_)
Flatten(bs) == IF bs = <<>> THEN <<>> ELSE Head(bs) \o Flatten(Tail(bs))

\* the batches whose call has returned
BatchesReturned == offset \div VARS_PER_BATCH

\* C29: the batches that classify_table_concepts hands to classify_batch
\* hold between 1 and VARS_PER_BATCH variables each and are, one after the
\* other, the table's variables from the first on in input order; a batch
\* is issued only when the calls of all earlier batches have returned, so at
\* most one is in flight; when the function returns, the batches together
\* are all V variables, each exactly once, and ceil(V / VARS_PER_BATCH)
\* calls were issued, none for V = 0.
C29_ConsecutiveBatches ==
    /\ \A b \in DOMAIN issued :
          /\ Len(issued[b]) \in 1..VARS_PER_BATCH
          /\ issued[b] = SubSeq(all_vars, (b - 1) * VARS_PER_BATCH + 1,
                                (b - 1) * VARS_PER_BATCH + Len(issued[b]))
    /\ Len(issued) - BatchesReturned = (IF tpc \in {"await", "raised"} THEN 1 ELSE 0)
    /\ tpc = "returned" =>
          /\ Flatten(issued) = all_vars
          /\ Len(issued) = (Len(all_vars) + VARS_PER_BATCH - 1) \div VARS_PER_BATCH

\* C29 witness: a table of VARS_PER_BATCH + 1 variables has been classified
\* with two batch calls, the second for the one variable left.
C29_Witness ==
    /\ tpc = "returned"
    /\ Len(all_vars) = VARS_PER_BATCH + 1
    /\ Len(issued) = 2
    /\ Len(issued[1]) = VARS_PER_BATCH
    /\ Len(issued[2]) = 1

\* the first position of a name in the assignments of the batches
FirstOf(name) ==
    CHOOSE i \in DOMAIN all_concepts :
        /\ all_concepts[i].variable_name = name
        /\ \A j \in 1..(i - 1) : all_concepts[j].variable_name # name

\* C30: the result of classify_table_concepts holds one entry for every
\* variable name that the batches returned and no name twice; the entry
\* carries the concept of the first assignment of that name in batch order,
\* and the entries are in the order of these first assignments.
C30_FirstOccurrenceKept ==
    tpc = "returned" =>
        /\ {assigned[k].name : k \in DOMAIN assigned}
              = {all_concepts[i].variable_name : i \in DOMAIN all_concepts}
        /\ \A j, k \in DOMAIN assigned :
              /\ assigned[j].name = assigned[k].name => j = k
              /\ j < k => FirstOf(assigned[j].name) < FirstOf(assigned[k].name)
        /\ \A k \in DOMAIN assigned :
              assigned[k].concept = all_concepts[FirstOf(assigned[k].name)].concept

\* C30 witness: the second batch of a table returned a name that the first
\* batch had returned, with another concept, and the first batch returned
\* one name twice; the result has been built.
C30_Witness ==
    /\ tpc = "returned"
    /\ Len(issued) = 2
    /\ Len(all_concepts) = 4
    /\ all_concepts[1].variable_name = all_concepts[2].variable_name
    /\ all_concepts[1].concept # all_concepts[2].concept
    /\ all_concepts[3].variable_name = all_concepts[1].variable_name
    /\ all_concepts[3].concept # all_concepts[1].concept
    /\ all_concepts[4].variable_name # all_concepts[1].variable_name
    /\ Len(assigned) = 2

\* ------------------------------------------------------- normalize_concepts

\* the concept labels of the model in sorted order
LabelOrder == <<"A", "B", "C">>
Labels == {LabelOrder[k] : k \in DOMAIN LabelOrder}

\* sorted(S) for a set of labels
SortedLabels(S) == SelectSeq(LabelOrder, LAMBDA l : l \in S)

\* the concept of every variable, in the order of the variables
ConceptsOfTable_per_variable(variables) == variables

\* sorted({v["concept"] for v in variables}): a table's concepts list; a
\* variable of a concept file is modelled by its concept
ConceptsOfTable(variables) == SortedLabels({variables[k] : k \in DOMAIN variables})

ConceptTable(variables) ==
    [variables |-> variables, concepts |-> ConceptsOfTable(variables)]

\* the tables lists of the concept files of the model, as
\* classify_study_concepts writes them
FirstFileTables ==
    {<<ConceptTable(v)>> : v \in [1..1 -> Labels] \cup [1..2 -> Labels]}
        \cup {<<ConceptTable(v), ConceptTable(w)>> :
                v \in [1..1 -> Labels] \cup [1..2 -> Labels], w \in [1..1 -> Labels]}
SecondFileTables == {<<ConceptTable(v)>> : v \in [1..1 -> Labels]}

\* sorted(output_dir.glob("phs*.json")): the studies that have a concept file
Files(cf) == SelectSeq(StudyOrder, LAMBDA f : f \in DOMAIN cf)

\* all_concepts of normalize_concepts
AllConcepts(cf) ==
    UNION {UNION {{cf[f][j].variables[k] : k \in DOMAIN cf[f][j].variables} :
                    j \in DOMAIN cf[f]} : f \in DOMAIN cf}

\* ConceptGroup: the groups an answer of the service can hold
ConceptGroup ==
    {[canonical |-> c, synonyms |-> syn] :
        c \in Labels, syn \in SeqsUpTo(Labels, MaxSynonyms)}

\* the answers of the service to one request of normalize_concepts
NormResponses ==
    {[ok |-> TRUE, groups |-> g] : g \in SeqsUpTo(ConceptGroup, MaxGroups)}
        \cup {[ok |-> FALSE, error |-> e] : e \in Errors}

\* mapping[syn] = canonical
Put(m, k, v) == [x \in DOMAIN m \cup {k} |-> IF x = k THEN v ELSE m[x]]

\* the inner loop of the mapping: the synonyms of one group
RECURSIVE AddSynonyms(_, _, _)
AddSynonyms(m, canonical, synonyms) ==
    IF synonyms = <<>> THEN m
    ELSE LET syn == Head(synonyms) IN
         AddSynonyms(IF syn # canonical THEN Put(m, syn, canonical) ELSE m,
                     canonical, Tail(synonyms))

\* the outer loop of the mapping: the groups in order
RECURSIVE BuildMapping(_, _)
BuildMapping(m, groups) ==
    IF groups = <<>> THEN m
    ELSE BuildMapping(AddSynonyms(m, Head(groups).canonical, Head(groups).synonyms),
                      Tail(groups))

EmptyMapping == [x \in {} |-> "A"]

\* a loop that sets the changed flag for every table it goes through
Remapped_always(m, variables) == TRUE

\* `if old in mapping` holds for a variable of the table: changed = True
Remapped(m, variables) == \E k \in DOMAIN variables : variables[k] \in DOMAIN m

\* the loop over the tables of one concept file: every variable whose
\* concept is a key of the mapping is remapped, and once something has
\* changed in the file the concepts lists are rebuilt
RECURSIVE ApplyMapping(_, _, _)
ApplyMapping(m, tbls, changed) ==
    IF tbls = <<>> THEN [tables |-> <<>>, changed |-> changed]
    ELSE LET t == Head(tbls)
             vs == [k \in DOMAIN t.variables |->
                      IF t.variables[k] \in DOMAIN m THEN m[t.variables[k]]
                      ELSE t.variables[k]]
             ch == changed \/ Remapped(m, t.variables)
             nt == [variables |-> vs,
                    concepts |-> IF ch THEN ConceptsOfTable(vs) ELSE t.concepts]
             rest == ApplyMapping(m, Tail(tbls), ch)
         IN  [tables |-> <<nt>> \o rest.tables, changed |-> rest.changed]

InitNorm ==
    /\ ParseIdle
    /\ CoverageIdle
    /\ RunIdle
    /\ RulesIdle
    /\ StudyIdle
    /\ CallIdle
    /\ ConceptsIdle
    /\ \E a \in FirstFileTables :
          \/ concept_files = [f \in {"phs1"} |-> a]
          \/ \E b \in SecondFileTables :
                concept_files = [f \in StudyIds |-> IF f = "phs1" THEN a ELSE b]
    /\ normalization_map = None
    /\ npc = "start"
    /\ nbatch = 0
    /\ nattempt = 0
    /\ all_groups = <<>>
    /\ rewritten = {}
    /\ passes = 0

\* normalize_concepts is called: with fewer than 2 distinct concepts it
\* returns; otherwise the request of the first batch is issued
NormStart ==
    /\ npc = "start"
    /\ IF Cardinality(AllConcepts(concept_files)) < 2
       THEN /\ npc' = "done"
            /\ UNCHANGED nattempt
       ELSE /\ npc' = "await"
            /\ nattempt' = 1
    /\ UNCHANGED <<concept_files, normalization_map, nbatch, all_groups, rewritten,
                   passes>>

\* an end of normalize_concepts that writes the map also without any group
Finish_writes_empty_map(groups) ==
    LET mapping == BuildMapping(EmptyMapping, groups)
        applied == [f \in DOMAIN concept_files |->
                      ApplyMapping(mapping, concept_files[f], FALSE)]
    IN  /\ normalization_map' = Some([groups |-> groups, mapping |-> mapping])
        /\ concept_files' = [f \in DOMAIN concept_files |->
                               IF applied[f].changed THEN applied[f].tables
                               ELSE concept_files[f]]
        /\ rewritten' = {f \in DOMAIN concept_files : applied[f].changed}

\* the rest of normalize_concepts after the last batch: without any group
\* it returns; otherwise it writes the normalization map and rewrites every
\* concept file in which a concept changed
Finish(groups) ==
    IF groups = <<>>
    THEN UNCHANGED <<concept_files, normalization_map, rewritten>>
    ELSE LET mapping == BuildMapping(EmptyMapping, groups)
             applied == [f \in DOMAIN concept_files |->
                           ApplyMapping(mapping, concept_files[f], FALSE)]
         IN  /\ normalization_map' = Some([groups |-> groups, mapping |-> mapping])
             /\ concept_files' = [f \in DOMAIN concept_files |->
                                    IF applied[f].changed THEN applied[f].tables
                                    ELSE concept_files[f]]
             /\ rewritten' = {f \in DOMAIN concept_files : applied[f].changed}

\* the request of the batch is answered: the groups are appended and the
\* loop goes to the next batch or normalize_concepts finishes; a rate-limit
\* error is retried after a sleep while attempt < MAX_RETRIES; any other
\* error, and the last rate-limit error, is raised
NormRespond(r) ==
    /\ npc = "await"
    /\ UNCHANGED passes
    /\ IF r.ok
       THEN /\ all_groups' = all_groups \o r.groups
            /\ nbatch' = nbatch + NORMALIZE_BATCH_SIZE
            /\ IF nbatch' < Cardinality(AllConcepts(concept_files))
               THEN /\ nattempt' = 1
                    /\ UNCHANGED <<npc, concept_files, normalization_map, rewritten>>
               ELSE /\ npc' = "done"
                    /\ UNCHANGED nattempt
                    /\ Finish(all_groups')
       ELSE /\ npc' = IF Retried(r.error, nattempt) THEN "backoff" ELSE "raised"
            /\ UNCHANGED <<concept_files, normalization_map, nbatch, nattempt,
                           all_groups, rewritten>>

\* asyncio.sleep(wait) is over: the next attempt of the batch
NormWake ==
    /\ npc = "backoff"
    /\ npc' = "await"
    /\ nattempt' = nattempt + 1
    /\ UNCHANGED <<concept_files, normalization_map, nbatch, all_groups, rewritten,
                   passes>>

NormFrame ==
    UNCHANGED <<rulesVars, studyVars, callVars, conceptVars, runVars, covVars, parseVars>>

NextNorm ==
    \/ NormStart /\ NormFrame
    \/ \E r \in NormResponses : NormRespond(r) /\ NormFrame
    \/ NormWake /\ NormFrame

SpecNorm == InitNorm /\ [][NextNorm]_vars

\* main is run with --normalize once more, on the concept files as the
\* earlier run left them; normalize_concepts reads nothing else that an
\* earlier run wrote, and starts with its locals fresh
NormAgain ==
    /\ npc \in {"done", "raised"}
    /\ passes < MaxRepeats
    /\ passes' = passes + 1
    /\ npc' = "start"
    /\ nbatch' = 0
    /\ nattempt' = 0
    /\ all_groups' = <<>>
    /\ normalization_map' = None
    /\ rewritten' = {}
    /\ UNCHANGED concept_files

NextNormAgain ==
    \/ NextNorm
    \/ NormAgain /\ NormFrame

SpecNormAgain == InitNorm /\ [][NextNormAgain]_vars

\* ---------------------------------------------------- orchestrator run (main)

\* a study accession that has no tables in the cache
UnknownStudy == "phs9"

\* tables_by_study of main: the table names of the cache grouped by study,
\* in the order of the cache
tables_by_study ==
    [s \in StudyIds |->
        IF s = "phs1" THEN [i \in 1..MaxRunTables |-> MaxRunTables + 1 - i]
        ELSE <<1>>]

\* tables_by_study.get(study_id, [])
TablesOf(s) == IF s \in DOMAIN tables_by_study THEN tables_by_study[s] ELSE <<>>

\* sorted(S) for a set of study accessions
SortedStudies(S) == SelectSeq(StudyOrder, LAMBDA x : x \in S)

\* the options of main: --all and --study
Args ==
    [all : BOOLEAN,
     study : {None} \cup {Some(x) : x \in StudyIds \cup {UnknownStudy}}]

\* the answers of the service in a run: those of a request, with one usage
RunResponses(m) ==
    {r \in Responses(m) : r.ok => r.input_tokens = 1 /\ r.output_tokens = 2}

\* a selection that takes every entry, whatever its verdict
TablesWith_any(entries, o) == [k \in DOMAIN entries |-> entries[k].table]

\* the table names of the entries with output o
TablesWith(entries, o) ==
    LET sel == SelectSeq(entries, LAMBDA e : e.output = o)
    IN  [k \in DOMAIN sel |-> sel[k].table]

\* the dict that classify_study / classify_study_concepts returns and that
\* write_llm_rules / write_study_concepts dump: the rules and the skipped
\* tables, or the tables, of the collected results c
StudyResult(m, s, c) ==
    IF m = "verdict"
    THEN [studyId |-> s, rules |-> TablesWith(c.entries, "classify"),
          skipped |-> TablesWith(c.entries, "skip")]
    ELSE [studyId |-> s,
          tables |-> [k \in DOMAIN c.entries |-> c.entries[k].table]]

\* the rule that classify_study appends for a table whose verdict proposes
\* one: the dict with the keys match, measure, domain, rationale and
\* description, the pattern being the table name anchored at both ends
ProposedRule(table) ==
    [match |-> [tableName |-> [anchored |-> TRUE, lit |-> <<table>>]],
     measure |-> <<"measure", table>>,
     domain |-> <<"domain", table>>,
     rationale |-> <<"rationale", table>>,
     description |-> None]

\* write_llm_rules: what json.dump(study_result) puts into <study>.json and
\* json.load reads back, for the study result r of verdict mode
LlmRuleFile(r) ==
    [studyId |-> r.studyId, studyName |-> r.studyId,
     rules |-> [k \in DOMAIN r.rules |-> ProposedRule(r.rules[k])],
     skipped |-> r.skipped]

\* Rule.from_dict: the first item of d["match"] gives match_field and
\* pattern; d["concept"] and d["domain"] are subscripted, so a dict without
\* one of these keys raises KeyError; rationale and description are read
\* with d.get
from_dict(d) ==
    IF {"match", "concept", "domain"} \subseteq DOMAIN d
    THEN LET match_field == CHOOSE k \in DOMAIN d.match : TRUE
         IN  [ok |-> TRUE,
              rule |-> [match_field |-> match_field, pattern |-> d.match[match_field],
                        concept |-> d.concept, domain |-> d.domain]]
    ELSE [ok |-> FALSE, error |-> "KeyError"]

\* RuleFile.load, load_llm_rules: Rule.from_dict of every entry of
\* data["rules"]; the exception of an entry is raised out of the load
RuleFile_load(data) ==
    IF /\ {"studyId", "studyName", "rules"} \subseteq DOMAIN data
       /\ \A k \in DOMAIN data.rules : from_dict(data.rules[k]).ok
    THEN [ok |-> TRUE, rules |-> [k \in DOMAIN data.rules |-> from_dict(data.rules[k]).rule]]
    ELSE [ok |-> FALSE, error |-> "KeyError"]

\* the artifact of study s that an earlier run has written when every table
\* returned: a proposed rule per table, or an entry per table
EarlierArtifact(m, s) ==
    LET tbls == sorted_by_table_name(TablesOf(s))
        o == IF m = "verdict" THEN "classify" ELSE "concepts"
        w == [pc |-> "returned", attempt |-> 0, raised |-> None,
              result |-> Some([output |-> o, input_tokens |-> 1,
                               output_tokens |-> 2])]
    IN  StudyResult(m, s, Collected(tbls, [t \in DOMAIN tbls |-> w], 1))

\* an incremental run that takes an artifact without entries for missing
Existing_with_entries(m, rd, od) ==
    IF m = "verdict" THEN rd ELSE {s \in DOMAIN od : od[s].tables # <<>>}

\* existing of main: the studies that the incremental run leaves out, the
\* stems of RULES_DIR.glob("phs*.json") in llm_classify and of
\* CONCEPT_OUTPUT_DIR.glob("phs*.json") in llm_concept_classify
Existing(m, rd, od) == IF m = "verdict" THEN rd ELSE DOMAIN od

\* the study list that main hands to run_studies
SelectStudies(m, a, rd, od) ==
    IF a.study # None THEN <<a.study[1]>>
    ELSE IF a.all THEN SortedStudies(DOMAIN tables_by_study)
    ELSE SortedStudies(DOMAIN tables_by_study \ Existing(m, rd, od))

\* sum(t.variable_count for t in tables)
RECURSIVE SumSeq(_)
SumSeq(q) == IF q = <<>> THEN 0 ELSE Head(q) + SumSeq(Tail(q))

InitRun ==
    /\ ParseIdle
    /\ CoverageIdle
    /\ RulesIdle
    /\ CallIdle
    /\ ConceptsIdle
    /\ NormIdle
    /\ mode \in {"verdict", "concept"}
    /\ credential \in BOOLEAN
    /\ sorted_tables = <<>>
    /\ nvars = <<>>
    /\ worker = <<>>
    /\ semaphore = CONCURRENCY
    /\ study = None
    /\ out_of_order = FALSE
    /\ args \in Args
    /\ rules_dir \in SUBSET StudyIds
    /\ mode = "concept" => rules_dir = {}
    /\ \E S \in SUBSET StudyIds : output_dir = [s \in S |-> EarlierArtifact(mode, s)]
    /\ earlier = DOMAIN output_dir
    /\ rpc = "main"
    /\ run_ids = <<>>
    /\ ri = 0
    /\ results = <<>>
    /\ totals = <<>>
    /\ study_summary = <<>>
    /\ run_summary = None
    /\ requested = {}
    /\ joined = <<>>
    /\ before = None

\* main: the study list is chosen from the options and run_studies begins
RunMain ==
    /\ rpc = "main"
    /\ run_ids' = SelectStudies(mode, args, rules_dir, output_dir)
    /\ ri' = 1
    /\ totals' = IF mode = "verdict" THEN [total_rules |-> 0]
                 ELSE [total_tables |-> 0, total_vars |-> 0]
    /\ rpc' = "loop"
    /\ UNCHANGED <<args, rules_dir, output_dir, results, study_summary,
                   run_summary, earlier, before, requested, joined>>
    /\ UNCHANGED studyVars

\* run_studies: the study has no tables in the cache and is skipped
SkipStudy ==
    /\ rpc = "loop"
    /\ ri <= Len(run_ids)
    /\ TablesOf(run_ids[ri]) = <<>>
    /\ ri' = ri + 1
    /\ UNCHANGED <<args, rules_dir, output_dir, rpc, run_ids, results, totals,
                   study_summary, run_summary, earlier, before, requested, joined>>
    /\ UNCHANGED studyVars

\* run_studies: classify_study / classify_study_concepts is called for the
\* next study; it sorts the tables and creates its semaphore and its tasks
StartStudy ==
    /\ rpc = "loop"
    /\ ri <= Len(run_ids)
    /\ TablesOf(run_ids[ri]) # <<>>
    /\ sorted_tables' = sorted_by_table_name(TablesOf(run_ids[ri]))
    /\ nvars' = [t \in DOMAIN TablesOf(run_ids[ri]) |-> 1]
    /\ worker' = [t \in DOMAIN TablesOf(run_ids[ri]) |-> PendingWorker]
    /\ semaphore' = CONCURRENCY
    /\ study' = None
    /\ out_of_order' = FALSE
    /\ rpc' = "study"
    /\ UNCHANGED <<mode, credential, args, rules_dir, output_dir, run_ids, ri, results, totals,
                   study_summary, run_summary, earlier, before, requested, joined>>

\* a task of the study in progress gets its slot and issues its request
RunAcquire(t) ==
    /\ rpc = "study"
    /\ Acquire(t)
    /\ requested' = IF worker'[t].pc = "in_flight"
                    THEN requested \cup {run_ids[ri]} ELSE requested
    /\ UNCHANGED <<args, rules_dir, output_dir, rpc, run_ids, ri, results, totals,
                   study_summary, run_summary, earlier, before, joined>>

\* a request of the study in progress is answered
RunRespond(t, r) == rpc = "study" /\ Respond(t, r) /\ UNCHANGED runVars

\* a task of the study in progress ends its sleep
RunWake(t) == rpc = "study" /\ Wake(t) /\ UNCHANGED runVars

\* gather of the study in progress is over and the results are collected
RunCollect == rpc = "study" /\ Collect /\ UNCHANGED runVars

\* a writer that appends the result to the artifact that is already there
WriteArtifact_append(od, s, result) ==
    IF s \notin DOMAIN od THEN Put(od, s, result)
    ELSE Put(od, s, [f \in DOMAIN result |->
                        IF f = "studyId" THEN s ELSE od[s][f] \o result[f]])

\* write_llm_rules / write_study_concepts: open(path, "w") and json.dump of
\* the study result to <output_dir>/<studyId>.json
WriteArtifact(od, s, result) == Put(od, s, result)

\* what the progress lines of a study report: the tokens and, when there are
\* any, the errors (classify_study), and the counts of the result (run_studies)
StudySummary(m, c, result) ==
    [total_in |-> c.total_in, total_out |-> c.total_out,
     errors |-> IF c.errors > 0 THEN Some(c.errors) ELSE None,
     counts |-> IF m = "verdict"
                THEN [n_rules |-> Len(result.rules), n_skipped |-> Len(result.skipped)]
                ELSE [n_tables |-> Len(result.tables)]]

\* run_studies after classify_study / classify_study_concepts has returned:
\* the artifact of the study is written, the totals and the results list
\* are updated and the loop goes to the next study
StudyReturns ==
    /\ rpc = "study"
    /\ study # None
    /\ LET s == run_ids[ri]
           result == StudyResult(mode, s, study[1])
       IN  /\ output_dir' = WriteArtifact(output_dir, s, result)
           /\ results' = Append(results, result)
           /\ totals' = IF mode = "verdict"
                        THEN [total_rules |-> totals.total_rules + Len(result.rules)]
                        ELSE [total_tables |-> totals.total_tables + Len(result.tables),
                              total_vars |-> totals.total_vars + SumSeq(nvars)]
           /\ study_summary' = Put(study_summary, s, StudySummary(mode, study[1], result))
           /\ joined' = Put(joined, s,
                 [pcs |-> {worker[t].pc : t \in DOMAIN worker},
                  failed |-> Cardinality({t \in DOMAIN worker : worker[t].pc # "returned"}),
                  returned |-> {sorted_tables[t] : t \in {u \in DOMAIN worker :
                                                    worker[u].pc = "returned"}}])
    /\ ri' = ri + 1
    /\ rpc' = "loop"
    /\ sorted_tables' = <<>>
    /\ nvars' = <<>>
    /\ worker' = <<>>
    /\ semaphore' = CONCURRENCY
    /\ study' = None
    /\ out_of_order' = FALSE
    /\ UNCHANGED <<mode, credential, args, rules_dir, run_ids, run_summary, earlier, before, requested>>

\* what the last line of run_studies reports
RunSummary(m, tot, res) ==
    IF m = "verdict"
    THEN [total_rules |-> tot.total_rules, studies |-> Len(res)]
    ELSE [total_tables |-> tot.total_tables, total_vars |-> tot.total_vars,
          studies |-> Len(res)]

\* run_studies: the study list is exhausted, the last line is printed
RunFinish ==
    /\ rpc = "loop"
    /\ ri > Len(run_ids)
    /\ run_summary' = Some(RunSummary(mode, totals, results))
    /\ rpc' = "done"
    /\ UNCHANGED <<args, rules_dir, output_dir, run_ids, ri, results, totals,
                   study_summary, earlier, before, requested, joined>>
    /\ UNCHANGED studyVars

\* main is run once more, with options a, on the output directory as the
\* run before left it
RunAgain(a) ==
    /\ rpc = "done"
    /\ before = None
    /\ before' = Some(joined)
    /\ args' = a
    /\ rpc' = "main"
    /\ run_ids' = <<>>
    /\ ri' = 0
    /\ results' = <<>>
    /\ totals' = <<>>
    /\ study_summary' = <<>>
    /\ run_summary' = None
    /\ earlier' = DOMAIN output_dir
    /\ requested' = {}
    /\ joined' = <<>>
    /\ UNCHANGED <<rules_dir, output_dir>>
    /\ UNCHANGED studyVars

RunFrame ==
    UNCHANGED <<rulesVars, callVars, conceptVars, normVars, covVars, parseVars>>

NextRun ==
    \/ RunMain /\ RunFrame
    \/ SkipStudy /\ RunFrame
    \/ StartStudy /\ RunFrame
    \/ \E t \in DOMAIN worker : RunAcquire(t) /\ RunFrame
    \/ \E t \in DOMAIN worker, r \in RunResponses("verdict") \cup RunResponses("concept") :
          RunRespond(t, r) /\ RunFrame
    \/ \E t \in DOMAIN worker : RunWake(t) /\ RunFrame
    \/ RunCollect /\ RunFrame
    \/ StudyReturns /\ RunFrame
    \/ RunFinish /\ RunFrame

SpecRun == InitRun /\ [][NextRun]_vars

\* the steps of the program itself: asyncio.run(main()) runs the coroutine
\* of main and every task that is ready (a free slot, a sleep that is over,
\* a gather whose tasks have ended) until main returns
RunProgram ==
    \/ RunMain /\ RunFrame
    \/ SkipStudy /\ RunFrame
    \/ StartStudy /\ RunFrame
    \/ \E t \in DOMAIN worker : RunAcquire(t) /\ RunFrame
    \/ \E t \in DOMAIN worker : RunWake(t) /\ RunFrame
    \/ RunCollect /\ RunFrame
    \/ StudyReturns /\ RunFrame
    \/ RunFinish /\ RunFrame

\* the steps of the inference service: a request in flight is answered
RunService ==
    \E t \in DOMAIN worker, r \in RunResponses("verdict") \cup RunResponses("concept") :
        RunRespond(t, r) /\ RunFrame

\* a run in which the event loop keeps running what is ready and the
\* service answers every request
SpecRunFair == SpecRun /\ WF_vars(RunProgram) /\ WF_vars(RunService)

\* two runs of llm_concept_classify one after the other, the first on an
\* empty output directory
InitRunAgain ==
    /\ InitRun
    /\ mode = "concept"
    /\ output_dir = <<>>

NextRunAgain ==
    \/ NextRun
    \/ \E a \in Args : RunAgain(a) /\ RunFrame

SpecRunAgain == InitRunAgain /\ [][NextRunAgain]_vars

\* ------------------------------------------------------------- parse_study

\* the var_report files a study directory can hold, in sorted order
XmlOrder ==
    <<"a.var_report.xml", "b.var_report.xml", "c.var_report.xml", "d.var_report.xml">>
XmlNames == {XmlOrder[k] : k \in 1..MaxFiles}

\* what a file holds: a report of a table, text that is no XML, or nothing
\* that can be read
Reports ==
    {[kind |-> "report", name |-> n] : n \in {"t1", "t2"}}
        \cup {[kind |-> "malformed"], [kind |-> "unreadable"]}

\* sorted(study_dir.glob("*.var_report.xml"))
SortedXml(dir) == SelectSeq(XmlOrder, LAMBDA f : f \in DOMAIN dir)

\* parse_var_report(xml_path, dir_study_id): the ParsedTable of the report,
\* or the exception that etree.parse raises
parse_var_report(xml_path, content) ==
    IF content.kind = "malformed" THEN [raised |-> Some("XMLSyntaxError")]
    ELSE IF content.kind = "unreadable" THEN [raised |-> Some("OSError")]
    ELSE [raised |-> None,
          table |-> [table_name |-> content.name, file_path |-> xml_path]]

InitParse ==
    /\ CoverageIdle
    /\ RunIdle
    /\ RulesIdle
    /\ StudyIdle
    /\ CallIdle
    /\ ConceptsIdle
    /\ NormIdle
    /\ \E S \in SUBSET XmlNames : study_dir \in [S -> Reports]
    /\ xml_files = <<>>
    /\ xi = 0
    /\ study_tables = <<>>
    /\ warnings = <<>>
    /\ ppc = "start"

\* parse_study is called: the files are listed and sorted, tables = []
ParseStart ==
    /\ ppc = "start"
    /\ xml_files' = SortedXml(study_dir)
    /\ xi' = 1
    /\ ppc' = "loop"
    /\ UNCHANGED <<study_dir, study_tables, warnings>>

\* a loop body without the try: the exception of a file ends parse_study
ParseOne_unguarded ==
    /\ ppc = "loop"
    /\ xi <= Len(xml_files)
    /\ LET xml_path == xml_files[xi]
           r == parse_var_report(xml_path, study_dir[xml_path])
       IN  IF r.raised = None
           THEN /\ study_tables' = Append(study_tables, r.table)
                /\ xi' = xi + 1
                /\ UNCHANGED ppc
           ELSE /\ ppc' = "raised"
                /\ UNCHANGED <<study_tables, xi>>
    /\ UNCHANGED <<study_dir, xml_files, warnings>>

\* one pass of the loop body: the table of the file is appended, or the
\* exception is caught and the WARNING line is printed
ParseOne ==
    /\ ppc = "loop"
    /\ xi <= Len(xml_files)
    /\ LET xml_path == xml_files[xi]
           r == parse_var_report(xml_path, study_dir[xml_path])
       IN  IF r.raised = None
           THEN /\ study_tables' = Append(study_tables, r.table)
                /\ UNCHANGED warnings
           ELSE /\ warnings' = Append(warnings, xml_path)
                /\ UNCHANGED study_tables
    /\ xi' = xi + 1
    /\ UNCHANGED <<study_dir, xml_files, ppc>>

\* the loop is over: return tables
ParseReturn ==
    /\ ppc = "loop"
    /\ xi > Len(xml_files)
    /\ ppc' = "returned"
    /\ UNCHANGED <<study_dir, xml_files, xi, study_tables, warnings>>

ParseFrame ==
    UNCHANGED <<rulesVars, studyVars, callVars, conceptVars, normVars, runVars, covVars>>

NextParse ==
    \/ ParseStart /\ ParseFrame
    \/ ParseOne /\ ParseFrame
    \/ ParseReturn /\ ParseFrame

SpecParse == InitParse /\ [][NextParse]_vars

\* ------------------------------------------------------ parse_study properties

\* the files of the directory that parse, in sorted order
Parsing == SelectSeq(SortedXml(study_dir),
                     LAMBDA f : study_dir[f].kind = "report")

\* C27: parse_study raises no error; it returns, in the sorted order of the
\* files, the table of every file of the directory that parses, and nothing
\* for a file that does not, for which it prints a warning.
C27_FailedRecordSkipped ==
    /\ ppc # "raised"
    /\ ppc = "returned" =>
          /\ Len(study_tables) = Len(Parsing)
          /\ \A k \in DOMAIN study_tables :
                /\ study_tables[k].file_path = Parsing[k]
                /\ study_tables[k].table_name = study_dir[Parsing[k]].name
          /\ warnings = SelectSeq(SortedXml(study_dir),
                                  LAMBDA f : study_dir[f].kind # "report")

\* C27 witness: of three files the second is no XML; parse_study has
\* returned the tables of the first and the third, in this order.
C27_Witness ==
    /\ ppc = "returned"
    /\ Len(xml_files) = 3
    /\ study_dir[xml_files[1]].kind = "report"
    /\ study_dir[xml_files[2]].kind = "malformed"
    /\ study_dir[xml_files[3]].kind = "report"
    /\ Len(study_tables) = 2
    /\ study_tables[1].file_path = xml_files[1]
    /\ study_tables[2].file_path = xml_files[3]

\* ---------------------------------------------------------- coverage report

\* the dataset ids of the tables of a study, in table order
DatasetOrder == <<"d1", "d2", "d3">>

\* the tables lists of one study: distinct dataset ids, any variable counts
CovTableLists ==
    UNION {{[i \in 1..k |-> [dataset_id |-> DatasetOrder[i], variable_count |-> vc[i]]] :
               vc \in [1..k -> 0..MaxVarCount]} : k \in 0..MaxTables}

\* the classifications that can be passed in for the study
CovClassifications ==
    [dataset_id : {DatasetOrder[i] : i \in 1..MaxTables},
     concept : ConceptLabels,
     variable_count : 0..MaxVarCount]

\* sum(x.variable_count for x in q)
RECURSIVE SumCounts(_)
SumCounts(q) ==
    IF q = <<>> THEN 0 ELSE Head(q).variable_count + SumCounts(Tail(q))

\* round(n / d * 100, 1) in tenths of a percent, for n >= 0 and d > 0: the
\* nearest tenth, a tie going to the even one
RoundedRate(n, d) ==
    LET q == (n * 1000) \div d
        r == (n * 1000) % d
    IN  IF 2 * r < d THEN q
        ELSE IF 2 * r > d THEN q + 1
        ELSE IF q % 2 = 0 THEN q ELSE q + 1

\* a rate that takes a study without variables for fully classified
Rate_full_when_empty(classified_vars, total_vars) ==
    IF total_vars > 0 THEN RoundedRate(classified_vars, total_vars) ELSE 1000

\* rate = (classified_vars / total_vars * 100) if total_vars > 0 else 0, and
\* round(rate, 1), in tenths of a percent
Rate(classified_vars, total_vars) ==
    IF total_vars > 0 THEN RoundedRate(classified_vars, total_vars) ELSE 0

\* concepts[c.concept] += c.variable_count over the classifications, as the
\* dict's items in insertion order
RECURSIVE ConceptCounts(_, _)
ConceptCounts(items, cs) ==
    IF cs = <<>> THEN items
    ELSE LET c == Head(cs)
             known == \E k \in DOMAIN items : items[k].concept = c.concept
             next == IF known
                     THEN [k \in DOMAIN items |->
                             IF items[k].concept = c.concept
                             THEN [items[k] EXCEPT !.count = @ + c.variable_count]
                             ELSE items[k]]
                     ELSE Append(items, [concept |-> c.concept, count |-> c.variable_count])
         IN  ConceptCounts(next, Tail(cs))

\* sorted(concepts.items(), key=lambda x: -x[1]): stable, by descending count
RECURSIVE SortedByCount(_)
SortedByCount(items) ==
    IF items = <<>> THEN <<>>
    ELSE LET top == CHOOSE k \in DOMAIN items :
                        /\ \A j \in DOMAIN items : items[j].count <= items[k].count
                        /\ \A j \in 1..(k - 1) : items[j].count < items[k].count
         IN  <<items[top]>> \o
             SortedByCount([j \in 1..(Len(items) - 1) |->
                              IF j < top THEN items[j] ELSE items[j + 1]])

\* a count of the classifications instead of the tables that have one
ClassifiedTables_per_classification(tbls, cs) == Len(cs)

\* classified_dataset_ids = {c.dataset_id for c in classifications} and
\* sum(1 for t in tables if t.dataset_id in classified_dataset_ids)
ClassifiedTables(tbls, cs) ==
    LET classified_dataset_ids == {cs[k].dataset_id : k \in DOMAIN cs}
    IN  Cardinality({i \in DOMAIN tbls :
                        tbls[i].dataset_id \in classified_dataset_ids})

\* compute_study_coverage(tables, classifications): the CoverageStats of the
\* study, or the IndexError of tables[0] for an empty tables list
compute_study_coverage(tbls, cs) ==
    IF tbls = <<>> THEN [raised |-> Some("IndexError")]
    ELSE LET total_tables == Len(tbls)
             total_vars == SumCounts(tbls)
             classified_tables == ClassifiedTables(tbls, cs)
             classified_vars == SumCounts(cs)
         IN  [raised |-> None,
              total_tables |-> total_tables,
              classified_tables |-> classified_tables,
              unclassified_tables |-> total_tables - classified_tables,
              total_variables |-> total_vars,
              classified_variables |-> classified_vars,
              unclassified_variables |-> total_vars - classified_vars,
              classification_rate |-> Rate(classified_vars, total_vars),
              concepts |-> SortedByCount(ConceptCounts(<<>>, cs))]

InitCoverage ==
    /\ ParseIdle
    /\ RulesIdle
    /\ StudyIdle
    /\ CallIdle
    /\ ConceptsIdle
    /\ NormIdle
    /\ RunIdle
    /\ cov_tables \in CovTableLists
    /\ cov_classifications \in SeqsUpTo(CovClassifications, MaxTables)
    /\ cov_stats = None

\* compute_study_coverage is called on the tables and the classifications
ComputeCoverage ==
    /\ cov_stats = None
    /\ cov_stats' = Some(compute_study_coverage(cov_tables, cov_classifications))
    /\ UNCHANGED <<cov_tables, cov_classifications>>

CoverageFrame ==
    UNCHANGED <<rulesVars, studyVars, callVars, conceptVars, normVars, runVars,
                parseVars>>

NextCoverage == ComputeCoverage /\ CoverageFrame

SpecCoverage == InitCoverage /\ [][NextCoverage]_vars

\* ------------------------------------------------- coverage report properties

\* the call has returned the CoverageStats of a study
Reported == cov_stats # None /\ cov_stats[1].raised = None

\* C17 as stated: for a study with total_variables = 0 the call reports the
\* rate 0 and raises no error; for total_variables > 0 the reported rate is
\* exactly classified_variables / total_variables * 100 (here in tenths of a
\* percent).
C17_RateIsQuotient ==
    (cov_stats # None /\ cov_tables # <<>>) =>
        /\ cov_stats[1].raised = None
        /\ SumCounts(cov_tables) = 0 => cov_stats[1].classification_rate = 0
        /\ SumCounts(cov_tables) > 0 =>
              cov_stats[1].classification_rate * SumCounts(cov_tables)
                  = SumCounts(cov_classifications) * 1000

\* C17 amended: for a study with total_variables = 0 the call reports the
\* rate 0 and raises no error, whatever classifications are passed in; for
\* total_variables > 0 the reported rate is
\* classified_variables / total_variables * 100 rounded to one decimal place.
C17_ZeroRateAndRoundedQuotient ==
    (cov_stats # None /\ cov_tables # <<>>) =>
        /\ cov_stats[1].raised = None
        /\ SumCounts(cov_tables) = 0 => cov_stats[1].classification_rate = 0
        /\ SumCounts(cov_tables) > 0 =>
              LET tenths == cov_stats[1].classification_rate
                  exact == SumCounts(cov_classifications) * 1000
                  d == SumCounts(cov_tables)
              IN  /\ 2 * (tenths * d - exact) <= d
                  /\ 2 * (exact - tenths * d) <= d

\* C17 witness: a study with tables but without variables, for which
\* classifications with variables were passed in, has been reported.
C17_Witness ==
    /\ Reported
    /\ Len(cov_tables) >= 2
    /\ cov_stats[1].total_variables = 0
    /\ cov_stats[1].classified_variables > 0
    /\ cov_stats[1].classification_rate = 0

\* C24: for a study (a non-empty tables list) compute_study_coverage returns
\* classified_tables = the number of tables whose dataset id is the dataset
\* id of some classification, classified_variables = the sum of the
\* variable_count of the classifications, unclassified_tables =
\* total_tables - classified_tables and unclassified_variables =
\* total_variables - classified_variables, with total_tables the number of
\* tables and total_variables the sum of their variable_count.
C24_CoverageCounts ==
    (cov_stats # None /\ cov_tables # <<>>) =>
        LET st == cov_stats[1]
            with == {i \in DOMAIN cov_tables :
                        \E k \in DOMAIN cov_classifications :
                            cov_classifications[k].dataset_id = cov_tables[i].dataset_id}
        IN  /\ st.raised = None
            /\ st.total_tables = Len(cov_tables)
            /\ st.total_variables = SumCounts(cov_tables)
            /\ st.classified_tables = Cardinality(with)
            /\ st.classified_variables = SumCounts(cov_classifications)
            /\ st.unclassified_tables = Cardinality(DOMAIN cov_tables \ with)
            /\ st.unclassified_tables = st.total_tables - st.classified_tables
            /\ st.unclassified_variables = st.total_variables - st.classified_variables

\* C24 witness: a study of two tables has been reported for which two
\* classifications of the same table were passed in: one table counts as
\* classified, the other as unclassified.
C24_Witness ==
    /\ Reported
    /\ Len(cov_tables) = 2
    /\ Len(cov_classifications) = 2
    /\ cov_classifications[1].dataset_id = cov_classifications[2].dataset_id
    /\ cov_stats[1].classified_tables = 1
    /\ cov_stats[1].unclassified_tables = 1
    /\ cov_stats[1].classified_variables = 3
    /\ cov_stats[1].unclassified_variables = 1

\* ------------------------------------------- normalize_concepts properties

\* C10: applying the mapping built by normalize_concepts once more to an
\* artifact to which it has been applied changes nothing: no variable
\* concept that was remapped is remapped again.
C10_MappingIdempotent ==
    (npc = "done" /\ normalization_map # None) =>
        \A f \in DOMAIN concept_files :
            LET again == ApplyMapping(normalization_map[1].mapping,
                                      concept_files[f], FALSE)
            IN  /\ ~again.changed
                /\ again.tables = concept_files[f]

\* C11: in the mapping that normalize_concepts builds from all accumulated
\* groups, no label that is the canonical of a group is a key of the mapping.
C11_CanonicalNeverKey ==
    normalization_map # None =>
        \A i \in DOMAIN normalization_map[1].groups :
            normalization_map[1].groups[i].canonical
                \notin DOMAIN normalization_map[1].mapping

\* the place of a label in the sorted order of the labels
LabelIndex(l) == CHOOSE i \in DOMAIN LabelOrder : LabelOrder[i] = l

\* a list of labels is sorted and holds no label twice
StrictlySorted(ls) ==
    \A i, j \in DOMAIN ls : i < j => LabelIndex(ls[i]) < LabelIndex(ls[j])

\* C21: in every concept file, as classify_study_concepts wrote it and after
\* every run of normalize_concepts on it, the concepts list of each table is
\* the sorted list of the distinct concepts of the table's variables.
C21_ConceptsSortedDistinct ==
    \A f \in DOMAIN concept_files :
        \A j \in DOMAIN concept_files[f] :
            LET t == concept_files[f][j] IN
            /\ StrictlySorted(t.concepts)
            /\ {t.concepts[i] : i \in DOMAIN t.concepts}
                  = {t.variables[k] : k \in DOMAIN t.variables}

\* C21 witness: a second run of normalize_concepts has rewritten a file in
\* which a table has two variables of the same concept.
C21_Witness ==
    /\ passes = 1
    /\ npc = "done"
    /\ "phs1" \in rewritten
    /\ Len(concept_files["phs1"][1].variables) = 2
    /\ Len(concept_files["phs1"][1].concepts) = 1

\* a variable concept of the artifact is a key of the mapping
HasKey(tbls, m) ==
    \E j \in DOMAIN tbls :
        \E k \in DOMAIN tbls[j].variables : tbls[j].variables[k] \in DOMAIN m

\* C20: when normalize_concepts applies the mapping, it rewrites exactly the
\* artifacts in which a variable concept is a key of the mapping, and these
\* change; every other artifact is neither written nor changed, and nothing
\* is written in a step that does not write the mapping.
C20_RewriteOnlyChanged ==
    [][IF normalization_map = None /\ normalization_map' # None
       THEN /\ rewritten' = {f \in DOMAIN concept_files :
                               HasKey(concept_files[f], normalization_map'[1].mapping)}
            /\ \A f \in DOMAIN concept_files :
                  IF f \in rewritten'
                  THEN concept_files'[f] # concept_files[f]
                  ELSE concept_files'[f] = concept_files[f]
       ELSE concept_files' = concept_files /\ rewritten' = rewritten]_vars

\* C20 witness: the mapping has been applied to two artifacts, of which the
\* one with a synonym has been rewritten and the other has not.
C20_Witness ==
    /\ normalization_map # None
    /\ DOMAIN concept_files = StudyIds
    /\ Cardinality(rewritten) = 1
    /\ DOMAIN normalization_map[1].mapping # {}

\* the table names that a list of the study result holds
Listed(q) == {q[k] : k \in DOMAIN q}

\* C32: after the collection the counts of a study add up: in concept mode
\* the table entries of the result and the errors, in verdict mode the
\* proposed rules, the skipped tables and the errors, are together as many
\* as the input tables; every input table is a returned table in exactly
\* one list, once, or a table that raised, and in no list.
C32_CountsAddUp ==
    study # None =>
        LET r == StudyResult(mode, "phs1", study[1])
            n == Len(sorted_tables)
            lists == IF mode = "verdict" THEN <<r.rules, r.skipped>> ELSE <<r.tables>>
            InList(i, t) == \E k \in DOMAIN lists[i] : lists[i][k] = sorted_tables[t]
        IN  /\ IF mode = "verdict"
               THEN Len(r.rules) + Len(r.skipped) + study[1].errors = n
               ELSE Len(r.tables) + study[1].errors = n
            /\ \A i \in DOMAIN lists :
                  \A j, k \in DOMAIN lists[i] : lists[i][j] = lists[i][k] => j = k
            /\ \A t \in DOMAIN worker :
                  IF worker[t].pc = "returned"
                  THEN Cardinality({i \in DOMAIN lists : InList(i, t)}) = 1
                  ELSE \A i \in DOMAIN lists : ~InList(i, t)

\* C32 witness: a verdict-mode study of three tables was collected with one
\* proposed rule, one skipped table and one error.
C32_Witness ==
    /\ study # None
    /\ mode = "verdict"
    /\ Len(sorted_tables) = 3
    /\ Len(StudyResult(mode, "phs1", study[1]).rules) = 1
    /\ Len(StudyResult(mode, "phs1", study[1]).skipped) = 1
    /\ study[1].errors = 1

\* ------------------------------------------------ orchestrator run properties

\* C26: in a run without the credential or the endpoint of the inference
\* service no request is issued to the service, classify_study /
\* classify_study_concepts is not gone through for any study, and no
\* artifact is written: the output directory holds the artifacts of the
\* earlier run and nothing else.
C26_AbortsWithoutCredential ==
    ~credential =>
        /\ requested = {}
        /\ joined = <<>>
        /\ results = <<>>
        /\ \A s \in DOMAIN output_dir :
              s \in earlier /\ output_dir[s] = EarlierArtifact(mode, s)

\* the studies with a table that failed in the run before this one
FailedBefore ==
    IF before = None THEN {}
    ELSE {s \in DOMAIN before[1] : before[1][s].failed >= 1}

\* C33: in concept mode a study with a failed table has its artifact written
\* all the same, with the tables that returned and without the failed one,
\* also when no table returned; a following run without --all and --study
\* issues no request for such a study, does not process it and leaves its
\* artifact as it is, so that a request for it in the following run means
\* that the run was forced with --all or with --study for that study.
C33_FailedTableNotRetried ==
    /\ \A s \in DOMAIN joined :
          /\ s \in DOMAIN output_dir
          /\ Listed(output_dir[s].tables) = joined[s].returned
          /\ Len(output_dir[s].tables) = Len(TablesOf(s)) - joined[s].failed
    /\ \A s \in FailedBefore :
          /\ (~args.all /\ args.study = None) =>
                /\ s \notin requested
                /\ s \notin DOMAIN joined
                /\ Listed(output_dir[s].tables) = before[1][s].returned
          /\ s \in requested => (args.all \/ args.study = Some(s))

\* C33 witness: after a run in which every table of phs1 failed, a run
\* without --all and --study has ended; it has issued requests for phs2 and
\* none for phs1, whose artifact without tables is still there.
C33_Witness ==
    /\ before # None
    /\ "phs1" \in DOMAIN before[1]
    /\ before[1]["phs1"].failed = Len(TablesOf("phs1"))
    /\ ~args.all
    /\ args.study = None
    /\ rpc = "done"
    /\ "phs2" \in requested
    /\ "phs1" \notin requested
    /\ output_dir["phs1"].tables = <<>>

\* C12: in both orchestrators a run without --all (and without --study)
\* issues no request for a study that had an artifact of an earlier run when
\* the run began, and a run with --all has processed every study of the
\* cache again when it ends.
C12_IncrementalSkip ==
    /\ (~args.all /\ args.study = None) => requested \cap earlier = {}
    /\ (args.all /\ args.study = None /\ rpc = "done") =>
          /\ DOMAIN tables_by_study \subseteq requested
          /\ DOMAIN tables_by_study \subseteq DOMAIN joined

\* the studies of the list before position i that have tables in the cache
Preceding(i) == {run_ids[j] : j \in {k \in 1..(i - 1) : TablesOf(run_ids[k]) # <<>>}}

\* C13: run_studies processes the studies one at a time: when a request has
\* been issued for a study, every study before it in the list has had all
\* its tables end (returned or raised) and its artifact written.
C13_OneStudyAtATime ==
    \A i \in DOMAIN run_ids :
        run_ids[i] \in requested =>
            \A p \in Preceding(i) :
                /\ p \in DOMAIN joined
                /\ joined[p].pcs \subseteq {"returned", "raised"}
                /\ p \in DOMAIN output_dir
                /\ i = ri => output_dir[p] \in {results[k] : k \in DOMAIN results}

\* C13 witness: a request is in flight for the second study of the list
\* after a table of the first study has failed.
C13_Witness ==
    /\ rpc = "study"
    /\ ri = 2
    /\ run_ids[ri] \in requested
    /\ \E t \in DOMAIN worker : worker[t].pc = "in_flight"
    /\ joined[run_ids[1]].failed >= 1

\* the tables of which an artifact holds a result, in the order of the file
ArtifactTables(a) ==
    IF "tables" \in DOMAIN a THEN a.tables ELSE a.rules \o a.skipped

\* C15: at every point of a run, an artifact written by this run exists only
\* for studies all of whose tables had returned or raised when it was
\* written; the study in progress has none while one of its tasks is pending,
\* in flight or backing off, and every other artifact is the one of the
\* earlier run.
C15_ArtifactOnlyAfterJoin ==
    /\ \A s \in DOMAIN joined : joined[s].pcs \subseteq {"returned", "raised"}
    /\ (rpc = "study" /\ \E t \in DOMAIN worker :
                            worker[t].pc \in {"pending", "in_flight", "backoff"}) =>
          run_ids[ri] \notin DOMAIN joined
    /\ \A s \in DOMAIN output_dir \ DOMAIN joined :
          s \in earlier /\ output_dir[s] = EarlierArtifact(mode, s)

\* C15 witness: the first study's artifact has been written by this run and
\* the second study, which has an artifact of the earlier run, is in
\* progress with a task backing off.
C15_Witness ==
    /\ rpc = "study"
    /\ ri = 2
    /\ run_ids[1] \in DOMAIN joined
    /\ run_ids[2] \in earlier
    /\ \E t \in DOMAIN worker : worker[t].pc = "backoff"

\* the failed tables of the studies that the run has processed
RECURSIVE FailedTables(_)
FailedTables(S) ==
    IF S = {} THEN 0
    ELSE LET s == CHOOSE x \in S : TRUE
         IN  joined[s].failed + FailedTables(S \ {s})

\* the summary of every study with a failed table reports the failures
StudyLevelReported ==
    \A s \in DOMAIN joined :
        joined[s].failed > 0 => study_summary[s].errors = Some(joined[s].failed)

\* C16: whenever a table of a study has failed in a run, the number of
\* failures is reported by the study-level summary of that study and by the
\* run-level summary at the end of the run.
C16_FailuresReported ==
    /\ StudyLevelReported
    /\ (run_summary # None /\ FailedTables(DOMAIN joined) > 0) =>
          /\ "errors" \in DOMAIN run_summary[1]
          /\ run_summary[1].errors = FailedTables(DOMAIN joined)

\* C19 as stated: after a study has been processed, its artifact holds a
\* result for every table of the study.
C19_AllTablesInArtifact ==
    \A s \in DOMAIN joined :
        {ArtifactTables(output_dir[s])[k] : k \in DOMAIN ArtifactTables(output_dir[s])}
            = {TablesOf(s)[k] : k \in DOMAIN TablesOf(s)}

\* C19 amended: after a study has been processed, its artifact has been
\* replaced as a whole: it is the result of this run, holding exactly one
\* entry for every table whose call returned, none for a table whose call
\* raised and nothing of the artifact that was there before.
C19_ArtifactReplaced ==
    \A s \in DOMAIN joined :
        LET tbls == ArtifactTables(output_dir[s])
        IN  /\ {tbls[k] : k \in DOMAIN tbls} = joined[s].returned
            /\ Len(tbls) = Cardinality(joined[s].returned)
            /\ output_dir[s] \in {results[k] : k \in DOMAIN results}

\* C19 witness: a study that had an artifact of the earlier run with every
\* table has been processed again, one of its tables has failed, and its
\* artifact now holds the other table only.
C19_Witness ==
    /\ "phs1" \in earlier
    /\ "phs1" \in DOMAIN joined
    /\ joined["phs1"].failed = 1
    /\ Len(ArtifactTables(output_dir["phs1"])) = Len(TablesOf("phs1")) - 1

\* --------------------------------------------------- retry loop properties

IsRateLimit(r) == ~r.ok /\ r.error = RATE_LIMIT

\* the answers that the call has received are n rate-limit errors
RateLimitedTimes(n) ==
    /\ Len(responses) = n
    /\ \A i \in 1..n : IsRateLimit(responses[i])

\* the answers that the call has received are n rate-limit errors followed
\* by a success
RateLimitedThenOk(n) ==
    /\ Len(responses) = n + 1
    /\ \A i \in 1..n : IsRateLimit(responses[i])
    /\ responses[n + 1].ok

\* C4: a call (classify_table, classify_batch) that is answered by N
\* consecutive rate-limit errors, N < MAX_RETRIES, has neither returned nor
\* raised and goes on to the next request; when the success follows, it has
\* returned exactly that one result, after exactly N + 1 requests and N sleeps.
C4_RetryThenSuccess ==
    \A n \in 0..(MAX_RETRIES - 1) :
        /\ (n >= 1 /\ RateLimitedTimes(n)) =>
              /\ cpc \in {"backoff", "in_flight"}
              /\ returned = <<>>
              /\ raised = None
              /\ requests = IF cpc = "in_flight" THEN n + 1 ELSE n
        /\ RateLimitedThenOk(n) =>
              /\ cpc = "returned"
              /\ returned = <<ReturnValue(responses[n + 1])>>
              /\ raised = None
              /\ requests = n + 1
              /\ Len(sleeps) = n

\* C4 witness: a call has returned its one result after MAX_RETRIES - 1
\* rate-limit errors and MAX_RETRIES requests.
C4_Witness ==
    /\ RateLimitedThenOk(MAX_RETRIES - 1)
    /\ cpc = "returned"
    /\ requests = MAX_RETRIES
    /\ Len(returned) = 1

C6_OtherErrorsNotRetried ==
    \A i \in DOMAIN responses :
        (~responses[i].ok /\ responses[i].error # RATE_LIMIT) =>
            /\ i = Len(responses)
            /\ cpc = "raised"
            /\ raised = Some(responses[i].error)
            /\ requests = i
            /\ Len(sleeps) = i - 1
            /\ returned = <<>>

\* C6 witness: a call has raised a non-HTTP error at its third attempt,
\* after two rate-limit errors, without a third sleep.
C6_Witness ==
    /\ raised = Some("unexpected")
    /\ requests = 3
    /\ Len(sleeps) = 2

InFlight == {t \in DOMAIN worker : worker[t].pc = "in_flight"}
Backoff == {t \in DOMAIN worker : worker[t].pc = "backoff"}
Pending == {t \in DOMAIN worker : worker[t].pc = "pending"}
Returned == {t \in DOMAIN worker : worker[t].pc = "returned"}
Raised == {t \in DOMAIN worker : worker[t].pc = "raised"}

\* C7: at every moment of a study the number of requests in flight is at
\* most CONCURRENCY.
C7_BoundedInFlight == Cardinality(InFlight) <= CONCURRENCY

\* C7 witness: CONCURRENCY requests are in flight, one of them a retry, the
\* semaphore is exhausted and a further table is waiting for a slot.
C7_Witness ==
    /\ Cardinality(InFlight) = CONCURRENCY
    /\ \E t \in InFlight : worker[t].attempt >= 2
    /\ semaphore = 0
    /\ Pending # {}

\* the study outcome holds the result of every table that returned, in
\* table order, and counts every table that raised
CollectedAll ==
    study # None =>
        /\ \A t \in DOMAIN worker : Terminal(worker[t])
        /\ study[1].errors = Cardinality(Raised)
        /\ Len(study[1].entries) = Cardinality(Returned)
        /\ \A t \in Returned :
              \E i \in DOMAIN study[1].entries :
                  study[1].entries[i] =
                      [table |-> sorted_tables[t],
                       output |-> worker[t].result[1].output]

\* the step in which a table fails changes no other table
FailureIsLocal ==
    \A t \in DOMAIN worker :
        (worker[t].pc # "raised" /\ worker'[t].pc = "raised") =>
            \A u \in DOMAIN worker \ {t} : worker'[u] = worker[u]

\* C14: the study result of classify_study / classify_study_concepts does
\* not depend on the order in which the workers end: its entries are in
\* ascending table-name order, and each entry holds the result of the call
\* of its own table.
C14_DeterministicOrder ==
    study # None =>
        /\ \A i, j \in DOMAIN study[1].entries :
              i < j => study[1].entries[i].table < study[1].entries[j].table
        /\ \A i \in DOMAIN study[1].entries :
              \E t \in Returned :
                  /\ sorted_tables[t] = study[1].entries[i].table
                  /\ worker[t].result[1].output = study[1].entries[i].output

\* C14 witness: a study was collected in which every table returned and a
\* task ended before the task of an earlier table.
C14_Witness ==
    /\ study # None
    /\ out_of_order
    /\ Len(study[1].entries) = Len(worker)
    /\ Len(worker) >= 2

\* C8: when a table's call ends in an unrecoverable error, no sibling is
\* cancelled: the failing step changes no other table, the study is collected
\* only when every table has returned or raised, every returned table's result
\* is in the study result and every failure counts as exactly one error.
C8_FailureIsolation == [](CollectedAll) /\ [][FailureIsLocal]_vars

\* C8 witness: a study was collected in which one table raised a
\* non-retryable error, one raised the rate-limit error of its last attempt
\* and a sibling returned; the result holds the sibling's entry and the error
\* count is 2.
C8_Witness ==
    /\ study # None
    /\ \E t, u, v \in DOMAIN worker :
          /\ worker[t].raised = Some("unexpected")
          /\ worker[u].raised = Some(RATE_LIMIT)
          /\ worker[v].pc = "returned"
    /\ study[1].errors = 2
    /\ Len(study[1].entries) = 1

\* the items of the study: the tables for which a call is made to the
\* service (in concept mode a table without variables has no batch)
Items == {t \in DOMAIN worker : Calls(mode, nvars[t]) > 0}

\* the status of an item
Status(w) ==
    CASE w.pc = "pending" -> "PENDING"
      [] w.pc = "in_flight" -> "IN_FLIGHT"
      [] w.pc = "backoff" -> "RATE_LIMITED"
      [] w.pc = "returned" -> "SUCCESS"
      [] w.pc = "raised" -> "FAILED"

ItemTransitions ==
    {<<"PENDING", "IN_FLIGHT">>, <<"IN_FLIGHT", "SUCCESS">>,
     <<"IN_FLIGHT", "RATE_LIMITED">>, <<"RATE_LIMITED", "IN_FLIGHT">>,
     <<"IN_FLIGHT", "FAILED">>}

\* one step of the study, seen from item t
ItemStep(t) ==
    /\ Status(worker'[t]) # Status(worker[t]) =>
          <<Status(worker[t]), Status(worker'[t])>> \in ItemTransitions
    /\ Status(worker[t]) \in {"SUCCESS", "FAILED"} =>
          /\ worker'[t] = worker[t]
          /\ Status(worker'[t]) # "IN_FLIGHT"
    /\ (Status(worker[t]) # "FAILED" /\ Status(worker'[t]) = "FAILED") =>
          \A u \in Items \ {t} : Status(worker'[u]) = Status(worker[u])

\* C22: the status of an item changes only from PENDING to IN_FLIGHT, from
\* IN_FLIGHT to SUCCESS, RATE_LIMITED or FAILED, and from RATE_LIMITED to
\* IN_FLIGHT; an item that is SUCCESS or FAILED stays as it is and issues
\* no request, and the step in which an item becomes FAILED, after a
\* non-retryable error or the rate-limit error of its last attempt, changes
\* the status of no other item.
C22_ItemStateMachine == [][\A t \in Items : ItemStep(t)]_vars

\* C22 witness: an item is FAILED after the rate-limit error of its last
\* attempt, another is FAILED after a non-retryable error, and a third,
\* rate-limited once, is in flight again.
C22_Witness ==
    \E t, u, v \in Items :
        /\ worker[t].raised = Some(RATE_LIMIT)
        /\ worker[u].raised = Some("http_500")
        /\ worker[v].pc = "in_flight"
        /\ worker[v].attempt = 2

\* C23: the accumulators of a study (the result list, the token totals and
\* the error count) are written in one step only, the collection after
\* gather: a step that writes them finds them unwritten, finds no worker
\* pending, in flight or backing off, and changes no worker; while a worker
\* is pending, in flight or backing off they are unwritten.
C23_WrittenOnlyAtCollection ==
    /\ []((\E t \in DOMAIN worker : worker[t].pc \in {"pending", "in_flight", "backoff"})
            => study = None)
    /\ [][study' # study =>
             /\ study = None
             /\ \A t \in DOMAIN worker : worker[t].pc \in {"returned", "raised"}
             /\ worker' = worker]_vars

\* C23 witness: the accumulators have been written for a study of which two
\* tables returned, with tokens, and one raised.
C23_Witness ==
    /\ study # None
    /\ Len(study[1].entries) = 2
    /\ study[1].errors = 1
    /\ study[1].total_in = 3
    /\ study[1].total_out = 2

\* the tables that hold a slot of the semaphore
Holding == InFlight \cup Backoff

\* C38: a call issues at most MAX_RETRIES requests and ends with a result
\* or with an error, never with neither; when the service answers every
\* request the run over the study list ends, and every table of every study
\* that was processed has then returned or raised.
C38_CallsEndRunTerminates ==
    /\ [](\A t \in DOMAIN worker :
            /\ worker[t].attempt <= MAX_RETRIES
            /\ worker[t].pc = "returned" =>
                  (worker[t].result # None /\ worker[t].raised = None)
            /\ worker[t].pc = "raised" =>
                  (worker[t].raised # None /\ worker[t].result = None)
            /\ worker[t].pc \in {"in_flight", "backoff"} =>
                  (worker[t].attempt >= 1 /\ worker[t].result = None
                   /\ worker[t].raised = None))
    /\ <>(rpc = "done")
    /\ [](rpc = "done" =>
            /\ worker = <<>>
            /\ \A s \in DOMAIN joined : joined[s].pcs \subseteq {"returned", "raised"})

\* C38 witness: the run has ended after a study of which one table returned
\* and another raised.
C38_Witness ==
    /\ rpc = "done"
    /\ \E s \in DOMAIN joined : joined[s].pcs = {"returned", "raised"}

\* C37: the rule file that the verdict orchestrator writes for a study loads
\* back with RuleFile.load: the load gives one Rule per proposed rule, with
\* the match field, the pattern, the label and the domain that were written.
C37_RulesLoadBack ==
    (mode = "verdict" /\ study # None) =>
        LET written == LlmRuleFile(StudyResult(mode, "phs1", study[1]))
            loaded == RuleFile_load(written)
        IN  /\ loaded.ok
            /\ Len(loaded.rules) = Len(written.rules)
            /\ \A k \in DOMAIN written.rules :
                  /\ loaded.rules[k].match_field = "tableName"
                  /\ loaded.rules[k].pattern = written.rules[k].match.tableName
                  /\ loaded.rules[k].concept = written.rules[k].measure
                  /\ loaded.rules[k].domain = written.rules[k].domain

\* C36: a run of normalize_concepts that ends in an error of a batch request,
\* or that finds fewer than 2 distinct concepts, or that got no group from
\* the service, has written no normalization map and has rewritten no
\* concept file; the map and the concept files change only in the step that
\* ends a run with at least one group.
C36_NormalizeAllOrNothing ==
    /\ []((npc = "raised" \/ (npc = "done" /\ all_groups = <<>>)) =>
            (normalization_map = None /\ rewritten = {}))
    /\ [][/\ (npc = "start" /\ Cardinality(AllConcepts(concept_files)) < 2) =>
                 (npc' = "done" /\ all_groups' = <<>>)
          /\ (npc' = "raised" \/ all_groups' = <<>>) =>
                 (normalization_map' = normalization_map /\ concept_files' = concept_files)
          /\ (normalization_map' # normalization_map \/ concept_files' # concept_files) =>
                 (npc = "await" /\ npc' = "done" /\ all_groups' # <<>>)]_vars

\* C36 witness: an earlier batch returned a group, and the request of a later
\* batch raised.
C36_Witness ==
    /\ npc = "raised"
    /\ all_groups # <<>>
    /\ nbatch > 0

\* C34: a table holds its slot from its first request until its call
\* returns or raises, also while it sleeps in backoff: the tables in flight
\* or sleeping are at most CONCURRENCY and the free slots are CONCURRENCY
\* less their number; a pending table starts only in a step before which
\* fewer than CONCURRENCY tables hold a slot, and the step that sends a
\* table to sleep or wakes it leaves the free slots as they are.
C34_SlotKeptInBackoff ==
    /\ [](/\ Cardinality(Holding) <= CONCURRENCY
          /\ semaphore = CONCURRENCY - Cardinality(Holding))
    /\ [][\A t \in DOMAIN worker :
             /\ (worker[t].pc = "pending" /\ worker'[t].pc # "pending") =>
                   Cardinality(Holding) < CONCURRENCY
             /\ (/\ worker[t].pc # worker'[t].pc
                 /\ "backoff" \in {worker[t].pc, worker'[t].pc}) =>
                   semaphore' = semaphore]_vars

\* C34 witness: CONCURRENCY tables sleep in backoff, no slot is free and
\* another table is pending.
C34_Witness ==
    /\ Cardinality(Backoff) = CONCURRENCY
    /\ InFlight = {}
    /\ Pending # {}
    /\ semaphore = 0

\* -------------------------------------------------------- phase 1 properties

Min(S) == CHOOSE x \in S : \A y \in S : x <= y
Range(q) == {q[i] : i \in DOMAIN q}

\* the rule's pattern regex-searches the field of the table that the rule's
\* match_field (tableName or description) selects
Searches(rule, table) ==
    \/ rule.match_field = "tableName" /\ re_search(rule.pattern, table.table_name)
    \/ rule.match_field = "description" /\ re_search(rule.pattern, table.description)

\* the positions of the rules of a list that search a table successfully
Hits(rules, table) == {i \in DOMAIN rules : Searches(rules[i], table)}

IsMatchCall == call # None /\ call[1].op = "match_table"
IsRun == call # None /\ call[1].op = "main"

\* C1: match_table(T, R) returns the first rule of R, in list order, whose
\* pattern regex-searches the field of T that the rule selects, and None when
\* no rule of R does; of two matching rules the earlier one is returned.
C1_FirstMatchWins ==
    IsMatchCall =>
        LET c == call[1]
            hits == Hits(c.rules, c.table)
        IN  IF hits = {} THEN c.result = None
            ELSE c.result = Some(c.rules[Min(hits)])

\* C1 witness: two different rules both match the table and the call has
\* returned the earlier one.
C1_Witness ==
    /\ IsMatchCall
    /\ Hits(call[1].rules, call[1].table) = {1, 2}
    /\ call[1].rules[1] # call[1].rules[2]
    /\ call[1].result = Some(call[1].rules[1])

\* the tables that a run of classify_tables goes through
Processed(c) ==
    {i \in DOMAIN tables :
        c.study_filter # None => tables[i].study_id = c.study_filter[1]}

\* the provenance that the claim C2 gives a Classification of table t
Provenance(t, k) ==
    LET sh == Hits(rule_files[t.study_id], t)
        dh == Hits(rule_files["_default"], t)
        src == k.rule_source
    IN  /\ k.study_id = t.study_id
        /\ k.table_name = t.table_name
        /\ (src[1] = t.study_id) <=> (sh # {})
        /\ (src[1] = "_default") <=> (sh = {} /\ dh # {})
        /\ sh # {} =>
              LET r == rule_files[t.study_id][Min(sh)] IN
              src = <<t.study_id, r.match_field, r.pattern>>
        /\ (sh = {} /\ dh # {}) =>
              LET r == rule_files["_default"][Min(dh)] IN
              src = <<"_default", r.match_field, r.pattern>>

\* C2: in classify_tables the rule_source of a Classification is prefixed
\* with the study id whenever a study rule matches the table (also when a
\* default rule matches too), and with "_default" exactly when no study rule
\* and some default rule matches; the rest is the matched rule's match_field
\* and pattern.
C2_StudyRulesFirst ==
    IsRun =>
        LET c == call[1] IN
        /\ \A k \in Range(c.result) :
              \E i \in Processed(c) : Provenance(tables[i], k)
        /\ \A i \in Processed(c) :
              (\/ Hits(rule_files[tables[i].study_id], tables[i]) # {}
               \/ Hits(rule_files["_default"], tables[i]) # {})
              => \E k \in Range(c.result) : Provenance(tables[i], k)

\* C2 witness: a run has classified one table by a study rule although a
\* default rule matches it too, and another table by a default rule.
C2_Witness ==
    /\ IsRun
    /\ \E i, j \in Processed(call[1]) :
          /\ Hits(rule_files[tables[i].study_id], tables[i]) # {}
          /\ Hits(rule_files["_default"], tables[i]) # {}
          /\ Hits(rule_files[tables[j].study_id], tables[j]) = {}
          /\ Hits(rule_files["_default"], tables[j]) # {}
          /\ \E k \in Range(call[1].result) : k.rule_source[1] = tables[i].study_id
          /\ \E k \in Range(call[1].result) : k.rule_source[1] = "_default"

\* the processed tables that some study rule or default rule matches
MatchedTables(c) ==
    {i \in Processed(c) :
        \/ Hits(rule_files[tables[i].study_id], tables[i]) # {}
        \/ Hits(rule_files["_default"], tables[i]) # {}}

\* C3: one pass of classify_tables yields one Classification for every table
\* that a study rule or a default rule matches and none for any other table,
\* so never more Classifications than tables.
C3_AtMostOnePerTable ==
    IsRun =>
        /\ Len(call[1].result) = Cardinality(MatchedTables(call[1]))
        /\ Len(call[1].result) <= Len(tables)

\* C3 witness: a run over two tables, one matched by a study rule and by a
\* default rule, the other matched by no rule, has yielded one Classification.
C3_Witness ==
    /\ IsRun
    /\ Len(tables) = 2
    /\ Cardinality(Processed(call[1])) = 2
    /\ \E i \in Processed(call[1]) :
          /\ Hits(rule_files[tables[i].study_id], tables[i]) # {}
          /\ Hits(rule_files["_default"], tables[i]) # {}
    /\ Cardinality(MatchedTables(call[1])) = 1
    /\ Len(call[1].result) = 1

\* the rule that decides table t: the first study rule that matches it,
\* else the first default rule that matches it
DecidingRule(t) ==
    LET sh == Hits(rule_files[t.study_id], t)
        dh == Hits(rule_files["_default"], t)
    IN  IF sh # {} THEN rule_files[t.study_id][Min(sh)]
        ELSE rule_files["_default"][Min(dh)]

\* the list q without its element at position i
Without(q, i) == [k \in 1..(Len(q) - 1) |-> IF k < i THEN q[k] ELSE q[k + 1]]

\* C40: a rule whose match_field is neither tableName nor description is
\* never the result of match_table, and the result is the one that the scan
\* of the list without that rule gives: the first of the other rules that
\* matches, or None.
C40_UnknownFieldSkipped ==
    IsMatchCall =>
        LET c == call[1] IN
        \A i \in DOMAIN c.rules :
            c.rules[i].match_field \notin {"tableName", "description"} =>
                LET others == Without(c.rules, i)
                    hits == Hits(others, c.table)
                IN  /\ c.result # Some(c.rules[i])
                    /\ c.result = IF hits = {} THEN None ELSE Some(others[Min(hits)])

\* C40 witness: the first rule has another match_field and a pattern that
\* the table name contains, the second rule matches, and the call has
\* returned the second rule.
C40_Witness ==
    /\ IsMatchCall
    /\ Len(call[1].rules) = 2
    /\ call[1].rules[1].match_field = "other"
    /\ re_search(call[1].rules[1].pattern, call[1].table.table_name)
    /\ call[1].rules[2].match_field \in {"tableName", "description"}
    /\ call[1].result = Some(call[1].rules[2])

\* C39: after a run of phase 1 on one study S that is no dry run, the
\* classifications file holds exactly the Classifications of this run: every
\* entry is of study S, there is one entry per table of S that a rule
\* matches, in the order of the tables, and no entry of another study that
\* the file held before is left.
C39_FileOverwritten ==
    (IsRun /\ ~call[1].dry_run /\ call[1].study_filter # None) =>
        LET S == call[1].study_filter[1]
            matched == {i \in DOMAIN tables :
                          /\ tables[i].study_id = S
                          /\ \/ Hits(rule_files[S], tables[i]) # {}
                             \/ Hits(rule_files["_default"], tables[i]) # {}}
        IN  /\ classifications_file # None
            /\ StudiesIn(classifications_file) \subseteq {S}
            /\ Len(classifications_file[1]) = Cardinality(matched)
            /\ \A k \in DOMAIN classifications_file[1] :
                  \E i \in matched :
                      /\ classifications_file[1][k].table_name = tables[i].table_name
                      /\ classifications_file[1][k].dataset_id = tables[i].dataset_id
                      /\ Cardinality({j \in matched : j < i}) = k - 1

\* C39 witness: the file held an entry of another study before the run on
\* study phs1, and holds entries of phs1 only after it.
C39_Witness ==
    /\ IsRun
    /\ ~call[1].dry_run
    /\ call[1].study_filter = Some("phs1")
    /\ "phs2" \in held_before
    /\ StudiesIn(classifications_file) = {"phs1"}

\* C31: every Classification of a run of classify_tables carries the
\* study_id, dataset_id, table_name, variable_count and variables of a
\* processed table that a rule matches, the concept and the domain of the
\* rule that decides that table, and phase 1; a table with 2 variables gives
\* variable_count = 2.
C31_ClassificationFields ==
    IsRun =>
        \A k \in DOMAIN call[1].result :
            LET c == call[1].result[k] IN
            /\ c.phase = 1
            /\ c.variable_count = Len(c.variables)
            /\ \E i \in MatchedTables(call[1]) :
                  LET t == tables[i] IN
                  /\ c.study_id = t.study_id
                  /\ c.dataset_id = t.dataset_id
                  /\ c.table_name = t.table_name
                  /\ c.variable_count = t.variable_count
                  /\ c.variables = t.variables
                  /\ c.concept = DecidingRule(t).concept
                  /\ c.domain = DecidingRule(t).domain

\* C31 witness: a run has yielded one Classification, for a table with 2
\* variables that a study rule matches, with variable_count = 2 and the
\* concept of that rule.
C31_Witness ==
    /\ IsRun
    /\ Len(call[1].result) = 1
    /\ call[1].result[1].rule_source[1] = "phs1"
    /\ call[1].result[1].variable_count = 2
    /\ call[1].result[1].variables = <<"v1", "v2">>
    /\ call[1].result[1].concept = <<"study", 1>>
    /\ call[1].result[1].phase = 1

====
